---- MODULE Spec2Model ----
(***************************************************************************)
(* A model of the traffic-monitor decision engine:                         *)
(*   traffic_monitor/notifications.py  evaluate_pattern_alert,             *)
(*                                     evaluate_departure_notification     *)
(*   traffic_monitor/analytics.py      compute_bucket_ema_baseline,        *)
(*                                     prune_jsonl_history                 *)
(*   traffic_monitor/state.py          NotificationState                   *)
(*                                                                         *)
(* Units.  A tick is 1/20 of a minute.  Instants (datetime) are ticks      *)
(* counted from Monday 00:00 of week 0, so that day 0 is a Monday, and     *)
(* durations in minutes (float) are counted in ticks too.  The anomaly     *)
(* integrals are fixed-point numbers with IntegralScale units per          *)
(* minute^2, and exp() is a table of values scaled by FactorScale.         *)
(* An Optional[...] value is <<>> (None) or <<v>>.                         *)
(***************************************************************************)
EXTENDS Integers, Sequences, FiniteSets, TLC

VARIABLES
    \* NotificationState (state.py:10-17)
    departure_date,
    departure_minutes,
    pattern_alert_date,
    anomaly_integral_high,
    anomaly_integral_low,
    anomaly_last_timestamp,
    \* observation of the calls made so far
    calls,          \* number of calls made
    last,           \* what the latest call returned
    alerts_on,      \* calendar date -> number of pattern alerts returned for it
    scenario,       \* how many calls so far replay the current scenario, or Off
    notified,       \* the departure decisions returned so far, oldest first
    \* analytics: the baseline estimator
    samples,        \* Sequence[TrafficSample] handed to the estimator
    query,          \* the estimator's keyword arguments
    baseline,       \* what it returned
    \* analytics: the sample store on disk
    file,           \* the JSONL file, one element per line
    pruned,         \* inputs and outputs of the latest prune_jsonl_history
    \* state.py: the notification state file on disk
    state_file,     \* what the file holds
    saving          \* the NotificationState.save in progress, if any

vars == <<departure_date, departure_minutes, pattern_alert_date,
          anomaly_integral_high, anomaly_integral_low, anomaly_last_timestamp,
          calls, last, alerts_on, scenario, notified,
          samples, query, baseline, file, pruned, state_file, saving>>

stateVars == <<departure_date, departure_minutes, pattern_alert_date,
               anomaly_integral_high, anomaly_integral_low, anomaly_last_timestamp>>

traceVars == <<calls, last, alerts_on, scenario, notified>>

baselineVars == <<samples, query, baseline>>

fileVars == <<file, pruned, state_file, saving>>

diskVars == <<state_file, saving>>

----------------------------------------------------------------------------
(* Optional values and time *)

None == <<>>

Some(v) == <<v>>

Off == 0 - 1

TicksPerMinute == 20

TicksPerDay == 24 * 60 * TicksPerMinute

\* minutes as a number of ticks
Mins(m) == m * TicksPerMinute

\* datetime.date(): the calendar day of an instant
DateOf(t) == t \div TicksPerDay

\* datetime.weekday(): Monday is 0
Weekday(t) == DateOf(t) % 7

\* the instant hh:mm on a day
At(day, hh, mm) == day * TicksPerDay + Mins(hh * 60 + mm)

\* analytics.minutes_since_midnight (analytics.py:125-127), in ticks
minutes_since_midnight(moment) == moment % TicksPerDay

\* strftime('%H:%M'): the clock time, cut to the minute
ClockTime(moment) == minutes_since_midnight(moment) \div TicksPerMinute

Min(a, b) == IF a <= b THEN a ELSE b

Abs(a) == IF a < 0 THEN 0 - a ELSE a

----------------------------------------------------------------------------
(* Fixed point *)

IntegralScale == 100000

FactorScale == 1000000

\* floor(x * f / FactorScale) for 0 <= x, 0 <= f <= FactorScale, computed
\* without leaving 32 bits
MulFactor(x, f) ==
    LET x1 == x \div 1000
        x0 == x % 1000
        f1 == f \div 1000
        f0 == f % 1000
    IN  x1 * f1 + ((x1 * f0 + x0 * f1 + ((x0 * f0) \div 1000)) \div 1000)

\* round(FactorScale * math.exp(-d / 120.0)) for d = 1 .. 15 minutes
ExpTable ==
    <<991701, 983471, 975310, 967216, 959189, 951229, 943335, 935507,
      927743, 920044, 912409, 904837, 897328, 889882, 882497>>

----------------------------------------------------------------------------
(* notifications.py: the anomaly integrator *)

\* keyword defaults of evaluate_pattern_alert
deadband_minutes == Mins(2)

integral_threshold == 180 * IntegralScale

decay_minutes == 120

sample_interval_minutes == 5

max_sample_gap_minutes == 15

\* the 1e-3 below which an accumulator is snapped to zero
Epsilon == IntegralScale \div 1000

\* _decay_factor(delta_minutes, decay_minutes), scaled by FactorScale
DecayFactorNoDecay(delta, decay) == FactorScale

DecayFactor(delta, decay) ==
    IF decay <= 0 THEN 0 ELSE ExpTable[delta]

\* the excess alone, not multiplied by the elapsed minutes
ContributionWithoutTime(excess, delta) ==
    excess * (IntegralScale \div TicksPerMinute)

\* (|deviation| - deadband_minutes) * delta_minutes, in integral units
Contribution(excess, delta) ==
    excess * delta * (IntegralScale \div TicksPerMinute)

\* the nominal interval whatever the gap
ElapsedMinutesNominal(sample_time, last_timestamp) == sample_interval_minutes

\* lines 83-90: minutes since the last observation that was incorporated
\* (sample times are whole minutes, so the division is exact)
ElapsedMinutes(sample_time, last_timestamp) ==
    LET d0 == IF last_timestamp # None
              THEN (sample_time - last_timestamp[1]) \div TicksPerMinute
              ELSE sample_interval_minutes
        d1 == IF d0 <= 0 THEN sample_interval_minutes ELSE d0
    IN  Min(d1, max_sample_gap_minutes)

NotificationState ==
    [departure_date |-> departure_date,
     departure_minutes |-> departure_minutes,
     pattern_alert_date |-> pattern_alert_date,
     anomaly_integral_high |-> anomaly_integral_high,
     anomaly_integral_low |-> anomaly_integral_low,
     anomaly_last_timestamp |-> anomaly_last_timestamp]

\* NotificationState()
DefaultState ==
    [departure_date |-> None,
     departure_minutes |-> None,
     pattern_alert_date |-> None,
     anomaly_integral_high |-> 0,
     anomaly_integral_low |-> 0,
     anomaly_last_timestamp |-> None]

\* PatternAlertDecision, with the state as the call leaves it and the value
\* the call compared with the threshold (None when it did not get there)
Decision(state, message, state_changed, integral_value) ==
    [state |-> state, message |-> message, state_changed |-> state_changed,
     integral_value |-> integral_value]

\* lines 93-96: both accumulators decay
ApplyDecayHighOnly(s, decay_factor) ==
    IF decay_factor < FactorScale
    THEN [s EXCEPT !.anomaly_integral_high = MulFactor(@, decay_factor)]
    ELSE s

ApplyDecay(s, decay_factor) ==
    IF decay_factor < FactorScale
    THEN [s EXCEPT !.anomaly_integral_high = MulFactor(@, decay_factor),
                   !.anomaly_integral_low = MulFactor(@, decay_factor)]
    ELSE s

\* lines 104-105: a deviation above the deadband
AddHighKeepLow(s, contribution) ==
    [s EXCEPT !.anomaly_integral_high = @ + contribution]

AddHigh(s, contribution) ==
    [s EXCEPT !.anomaly_integral_high = @ + contribution,
              !.anomaly_integral_low = 0]

\* lines 110-111: a deviation below the deadband
AddLow(s, contribution) ==
    [s EXCEPT !.anomaly_integral_low = @ + contribution,
              !.anomaly_integral_high = 0]

\* the snap alone, without the new timestamp
SnapWithoutTimestamp(s, sample_time) ==
    [s EXCEPT !.anomaly_integral_high = IF @ < Epsilon THEN 0 ELSE @,
              !.anomaly_integral_low = IF @ < Epsilon THEN 0 ELSE @]

\* lines 116-120: inside the deadband
SnapToZero(s, sample_time) ==
    [s EXCEPT !.anomaly_integral_high = IF @ < Epsilon THEN 0 ELSE @,
              !.anomaly_integral_low = IF @ < Epsilon THEN 0 ELSE @,
              !.anomaly_last_timestamp = Some(sample_time)]

\* the in-band return with the flag left as it was initialised
InBandUnreported(s, sample_time) ==
    Decision(SnapToZero(s, sample_time), None, FALSE, None)

\* lines 114-121: inside the deadband the call returns at once, with
\* state_changed = True
InBand(s, sample_time) ==
    Decision(SnapToZero(s, sample_time), None, TRUE, None)

\* line 133: an alert was already issued for the sample's calendar date
NeverAlreadyAlerted(s, sample_time) == FALSE

AlreadyAlerted(s, sample_time) ==
    s.pattern_alert_date = Some(DateOf(sample_time))

\* lines 140-142: the alert records the date and resets both accumulators
IssueAlertKeepIntegrals(s, sample_time) ==
    [s EXCEPT !.pattern_alert_date = Some(DateOf(sample_time))]

IssueAlert(s, sample_time) ==
    [s EXCEPT !.pattern_alert_date = Some(DateOf(sample_time)),
              !.anomaly_integral_high = 0,
              !.anomaly_integral_low = 0]

\* lines 123-144: after a contribution in `direction`
CheckThreshold(s, sample_time, direction, deviation, base) ==
    LET s1 == [s EXCEPT !.anomaly_last_timestamp = Some(sample_time)]
        integral_value == IF direction = "longer"
                          THEN s1.anomaly_integral_high
                          ELSE s1.anomaly_integral_low
    IN  IF integral_value < integral_threshold
        THEN Decision(s1, None, TRUE, Some(integral_value))
        ELSE IF AlreadyAlerted(s1, sample_time)
        THEN Decision(s1, None, TRUE, Some(integral_value))
        ELSE Decision(IssueAlert(s1, sample_time),
                      Some(<<direction, Abs(deviation), base>>), TRUE,
                      Some(integral_value))

\* lines 83-121: decay, then the contribution of this observation
Integrate(s, sample_time, current, base) ==
    LET delta_minutes == ElapsedMinutes(sample_time, s.anomaly_last_timestamp)
        decay_factor == DecayFactor(delta_minutes, decay_minutes)
        s1 == ApplyDecay(s, decay_factor)
        deviation == current - base
    IN  IF deviation > deadband_minutes
        THEN CheckThreshold(
                 AddHigh(s1, Contribution(deviation - deadband_minutes, delta_minutes)),
                 sample_time, "longer", deviation, base)
        ELSE IF deviation < 0 - deadband_minutes
        THEN CheckThreshold(
                 AddLow(s1, Contribution(Abs(deviation) - deadband_minutes, delta_minutes)),
                 sample_time, "shorter", deviation, base)
        ELSE InBand(s1, sample_time)

\* lines 75-78: no usable baseline, or a sample of the weekend
SkippedWithoutBaselineOnly(sample_time, base) == base = None \/ base[1] <= 0

Skipped(sample_time, base) ==
    \/ base = None \/ base[1] <= 0
    \/ Weekday(sample_time) >= 5

\* evaluate_pattern_alert(sample_time, current_duration_mins,
\*                        baseline_duration_mins, state)
\* baseline_duration_mins is Optional: None or Some(a duration in ticks)
evaluate_pattern_alert(s, sample_time, current, base) ==
    IF Skipped(sample_time, base)
    THEN Decision(s, None, FALSE, None)
    ELSE Integrate(s, sample_time, current, base[1])

----------------------------------------------------------------------------
(* notifications.py: the departure advisor *)

\* the 0.1 minute of line 45: recommended_minutes >= last_minutes - 0.1
ResendTolerance == TicksPerMinute \div 10

\* lines 36-38: it is too late once the recommended departure has passed
TooLateStrict(recommended_departure, now) == recommended_departure < now

TooLate(recommended_departure, now) == recommended_departure <= now

\* lines 39-41: it is too early before notify_at
TooEarlyByAnHour(now, notify_at) == now < notify_at - Mins(60)

TooEarly(now, notify_at) == now < notify_at

\* line 44: the minutes already notified for this target date
LastMinutesOtherDate(s, target_date) ==
    IF s.departure_date # Some(target_date) THEN s.departure_minutes ELSE None

LastMinutes(s, target_date) ==
    IF s.departure_date = Some(target_date) THEN s.departure_minutes ELSE None

\* line 45: no resend unless the recommendation is earlier beyond tolerance
NotEarlierNoTolerance(recommended_minutes, last_minutes) ==
    last_minutes # None /\ recommended_minutes >= last_minutes[1]

NotEarlier(recommended_minutes, last_minutes) ==
    last_minutes # None /\ recommended_minutes >= last_minutes[1] - ResendTolerance

\* lines 47-56: the message, as the values it is formatted from; the delta is
\* kept in ticks rather than rounded to one decimal
DepartureMessage(recommended_departure, arrival_time, target_arrival, current, base) ==
    LET baseline_departure == target_arrival - base
        delta == current - base
    IN  [leave_by |-> ClockTime(recommended_departure),
         arrive_for |-> arrival_time,
         baseline |-> ClockTime(baseline_departure),
         delta_text |-> IF delta >= 0
                        THEN <<"+", delta, "vs typical">>
                        ELSE <<"", Abs(delta), "faster than typical">>]

\* evaluate_departure_notification(now, arrival_time, target_arrival,
\*     current_duration_mins, baseline_duration_mins, lead_time, state):
\* None, or Some(DepartureDecision)
evaluate_departure_notification(now, arrival_time, target_arrival, current, base, lead_time, s) ==
    LET recommended_departure == target_arrival - current
        notify_at == recommended_departure - lead_time
        target_date == DateOf(target_arrival)
        recommended_minutes == minutes_since_midnight(recommended_departure)
        last_minutes == LastMinutes(s, target_date)
    IN  IF Weekday(target_arrival) >= 5
        THEN None
        ELSE IF TooLate(recommended_departure, now)
        THEN None
        ELSE IF TooEarly(now, notify_at)
        THEN None
        ELSE IF NotEarlier(recommended_minutes, last_minutes)
        THEN None
        ELSE Some([message |-> DepartureMessage(recommended_departure,
                                                arrival_time, target_arrival,
                                                current, base),
                   departure_minutes |-> recommended_minutes])

\* the caller of the advisor: on a decision it records the target date and the
\* recommended minutes in the state
StoreDeparture(s, target_arrival, decision) ==
    IF decision = None
    THEN s
    ELSE [s EXCEPT !.departure_date = Some(DateOf(target_arrival)),
                   !.departure_minutes = Some(decision[1].departure_minutes)]

----------------------------------------------------------------------------
(* analytics.py: the baseline estimator.  A float result is an exact        *)
(* fraction <<numerator, denominator>> in lowest terms, in ticks.           *)

RECURSIVE GCD(_, _)
GCD(a, b) == IF b = 0 THEN a ELSE GCD(b, a % b)

\* the fraction n / d (d > 0, n >= 0) in lowest terms
Frac(n, d) ==
    LET g == GCD(n, d)
    IN  IF g = 0 THEN <<0, 1>> ELSE <<n \div g, d \div g>>

RECURSIVE SumSeq(_)
SumSeq(xs) == IF xs = <<>> THEN 0 ELSE Head(xs) + SumSeq(Tail(xs))

\* statistics.fmean of a non-empty list of durations
fmeanLastOnly(xs) == Frac(xs[Len(xs)], 1)

fmean(xs) == Frac(SumSeq(xs), Len(xs))

\* _bucket_index(moment, bucket_minutes)
_bucket_index(moment, bucket_minutes) ==
    minutes_since_midnight(moment) \div Mins(bucket_minutes)

\* line 111: a sample of the target day or later is not history
NotHistorySameDayAllowed(sample_date, target_date) == sample_date > target_date

NotHistory(sample_date, target_date) == sample_date >= target_date

\* lines 106-115: the loop's three `continue` tests
InBucketHistory(sample, target_departure, bucket_minutes) ==
    /\ ~(Weekday(sample.departure_time) >= 5)
    /\ ~NotHistory(DateOf(sample.departure_time), DateOf(target_departure))
    /\ ~(_bucket_index(sample.departure_time, bucket_minutes)
            # _bucket_index(target_departure, bucket_minutes))

RECURSIVE DurationsOf(_)
DurationsOf(ss) ==
    IF ss = <<>> THEN <<>>
    ELSE <<Head(ss).traffic_duration_mins>> \o DurationsOf(Tail(ss))

\* by_day: date -> the durations appended for it, in the order of the samples
by_day(ss, target_departure, bucket_minutes) ==
    LET kept == SelectSeq(ss, LAMBDA x :
                    InBucketHistory(x, target_departure, bucket_minutes))
        days == {DateOf(kept[i].departure_time) : i \in 1 .. Len(kept)}
    IN  [d \in days |->
            DurationsOf(SelectSeq(kept, LAMBDA x : DateOf(x.departure_time) = d))]

\* sorted(...) of a set of dates
RECURSIVE Sorted(_)
Sorted(S) ==
    IF S = {} THEN <<>>
    ELSE LET m == CHOOSE x \in S : \A y \in S : x <= y
         IN  <<m>> \o Sorted(S \ {m})

\* ordered_days[:max_weekdays], the oldest days instead of the latest
RecentOldest(ordered_days, max_weekdays) ==
    IF Len(ordered_days) <= max_weekdays
    THEN ordered_days
    ELSE SubSeq(ordered_days, 1, max_weekdays)

\* ordered_days[-max_weekdays:]
Recent(ordered_days, max_weekdays) ==
    IF Len(ordered_days) <= max_weekdays
    THEN ordered_days
    ELSE SubSeq(ordered_days, Len(ordered_days) - max_weekdays + 1, Len(ordered_days))

\* the loop of _compute_ema: alpha = 2 / (span + 1),
\* ema = alpha * value + (1 - alpha) * ema
RECURSIVE EmaFold(_, _, _)
EmaFold(ema, values, span) ==
    IF values = <<>> THEN ema
    ELSE LET v == Head(values)
             next == Frac(2 * v[1] * ema[2] + (span - 1) * ema[1] * v[2],
                          (span + 1) * v[2] * ema[2])
         IN  EmaFold(next, Tail(values), span)

\* _compute_ema(values, span)
_compute_ema(values, span) ==
    IF values = <<>> THEN None
    ELSE IF span <= 1 \/ Len(values) = 1 THEN Some(values[Len(values)])
    ELSE Some(EmaFold(values[1], Tail(values), span))

\* what a call gives: a ValueError, or the Optional[float] it returns
Raised == [raised |-> TRUE, value |-> None]

Returned(v) == [raised |-> FALSE, value |-> v]

\* lines 96-101: the three tests that raise ValueError
RejectedOnlyWhenNegative(max_weekdays, bucket_minutes, ema_span) ==
    max_weekdays < 0 \/ bucket_minutes < 0 \/ ema_span < 0

RejectedConfiguration(max_weekdays, bucket_minutes, ema_span) ==
    max_weekdays <= 0 \/ bucket_minutes <= 0 \/ ema_span <= 0

\* compute_bucket_ema_baseline(samples, target_departure, max_weekdays,
\*                             bucket_minutes, ema_span)
compute_bucket_ema_baseline(ss, target_departure, max_weekdays, bucket_minutes, ema_span) ==
    IF RejectedConfiguration(max_weekdays, bucket_minutes, ema_span)
    THEN Raised
    ELSE LET days == by_day(ss, target_departure, bucket_minutes)
         IN  IF DOMAIN days = {}
             THEN Returned(None)
             ELSE LET recent_days == Recent(Sorted(DOMAIN days), max_weekdays)
                      values == [i \in 1 .. Len(recent_days) |->
                                    fmean(days[recent_days[i]])]
                  IN  Returned(_compute_ema(values, ema_span))

----------------------------------------------------------------------------
(* analytics.py: pruning the JSONL sample store.                            *)
(* A line of the file is a record                                           *)
(*   kind       "blank" (only whitespace), "garbage" (not JSON),            *)
(*              "nonobject" (JSON, but no object) or "object"               *)
(*   padded     the line has leading or trailing whitespace                 *)
(*   canonical  the text is exactly what json.dumps gives for its content   *)
(*   query_time the object's "query_time": present or not, an ISO           *)
(*              timestamp or not, its wall clock, and its UTC offset        *)
(*              (None when the timestamp carries no offset)                 *)

NoQueryTime == [present |-> FALSE, iso |-> FALSE, clock |-> 0, offset |-> None]

BadQueryTime == [present |-> TRUE, iso |-> FALSE, clock |-> 0, offset |-> None]

Timestamp(clock, offset) ==
    [present |-> TRUE, iso |-> TRUE, clock |-> clock, offset |-> offset]

\* the instant of an aware datetime
Instant(clock, offset) == clock - offset

\* line 184: a record at or after the cutoff is kept
KeepRecordStrict(moment, cutoff) == moment > cutoff

KeepRecord(moment, cutoff) == moment >= cutoff

\* line 165: line.strip()
Stripped(line) == [line EXCEPT !.padded = FALSE]

\* line 185: json.dumps(payload)
Dumped(line) == [line EXCEPT !.padded = FALSE, !.canonical = TRUE]

\* lines 163-187: the loop over the lines; cutoff is an aware datetime
\* [clock, offset].  Gives removed, kept_lines, and whether the call raised
\* (payload.get on a payload that is no dict).
RECURSIVE PruneLoop(_, _, _, _)
PruneLoop(lines, cutoff, removed, kept_lines) ==
    IF lines = <<>>
    THEN [raised |-> FALSE, removed |-> removed, kept_lines |-> kept_lines]
    ELSE LET line == Head(lines)
             rest == Tail(lines)
             qt == line.query_time
         IN  IF line.kind = "blank"
             THEN PruneLoop(rest, cutoff, removed, kept_lines)
             ELSE IF line.kind = "garbage"
             THEN PruneLoop(rest, cutoff, removed, Append(kept_lines, Stripped(line)))
             ELSE IF line.kind = "nonobject"
             THEN [raised |-> TRUE, removed |-> removed, kept_lines |-> kept_lines]
             ELSE IF ~qt.present
             THEN PruneLoop(rest, cutoff, removed, Append(kept_lines, Stripped(line)))
             ELSE IF ~qt.iso
             THEN PruneLoop(rest, cutoff, removed, Append(kept_lines, Stripped(line)))
             ELSE LET moment == IF qt.offset = None
                                THEN Instant(qt.clock, cutoff.offset)
                                ELSE Instant(qt.clock, qt.offset[1])
                  IN  IF KeepRecord(moment, Instant(cutoff.clock, cutoff.offset))
                      THEN PruneLoop(rest, cutoff, removed,
                                     Append(kept_lines, Dumped(line)))
                      ELSE PruneLoop(rest, cutoff, removed + 1, kept_lines)

\* prune_jsonl_history(path, cutoff): the file afterwards and the result.
\* exists is source.exists(); the file is rewritten only when removed > 0.
prune_jsonl_history(exists, lines, cutoff) ==
    IF ~exists
    THEN [raised |-> FALSE, removed |-> 0, file |-> lines]
    ELSE LET r == PruneLoop(lines, cutoff, 0, <<>>)
         IN  IF r.raised
             THEN [raised |-> TRUE, removed |-> 0, file |-> lines]
             ELSE [raised |-> FALSE, removed |-> r.removed,
                   file |-> IF r.removed > 0 THEN r.kept_lines ELSE lines]

----------------------------------------------------------------------------
(* analytics.py: loading the JSONL sample store.                            *)
(* A line of the file read by load_samples is a record                      *)
(*   kind         "blank", "garbage", "nonobject" or "object"               *)
(*   query_time, departure_time   as above: absent, not ISO, or a timestamp *)
(*   origin, destination          a string, "" when absent                  *)
(*   clear_duration_mins, traffic_duration_mins   a JSON value: absent,     *)
(*                a number (in ticks), or a text that is no number          *)

JMissing == [kind |-> "missing", value |-> 0]

JNumber(v) == [kind |-> "number", value |-> v]

JText == [kind |-> "text", value |-> 0]

\* bool(value), as all([...]) of line 35 tests a duration
Truthy(j) == j.kind = "text" \/ (j.kind = "number" /\ j.value # 0)

\* lines 39-43: a naive datetime gets the fallback zone
Aware(ts, fallback_tz) ==
    [clock |-> ts.clock,
     offset |-> IF ts.offset = None THEN fallback_tz ELSE ts.offset[1]]

\* the instant of a sample's query_time, the key of line 56
QueryInstant(sample) == Instant(sample.query_time.clock, sample.query_time.offset)

\* lines 22-55 for one line: the loop skips it, appends a sample, or the
\* call raises (payload.get on a payload that is no dict, line 29)
ParseLine(line, fallback_tz) ==
    IF line.kind = "blank" THEN [outcome |-> "skip"]
    ELSE IF line.kind = "garbage" THEN [outcome |-> "skip"]
    ELSE IF line.kind = "nonobject" THEN [outcome |-> "raise"]
    ELSE IF ~(/\ line.query_time.present
              /\ line.departure_time.present
              /\ line.origin # ""
              /\ line.destination # ""
              /\ Truthy(line.traffic_duration_mins))
    THEN [outcome |-> "skip"]
    ELSE IF ~line.query_time.iso \/ ~line.departure_time.iso
    THEN [outcome |-> "skip"]
    ELSE IF line.clear_duration_mins.kind = "text"
    THEN [outcome |-> "skip"]
    ELSE IF line.traffic_duration_mins.kind = "text"
    THEN [outcome |-> "skip"]
    ELSE [outcome |-> "sample",
          sample |->
            [query_time |-> Aware(line.query_time, fallback_tz),
             departure_time |-> Aware(line.departure_time, fallback_tz),
             origin |-> line.origin,
             destination |-> line.destination,
             clear_duration_mins |->
                IF line.clear_duration_mins.kind = "missing" THEN 0
                ELSE line.clear_duration_mins.value,
             traffic_duration_mins |-> line.traffic_duration_mins.value]]

\* lines 21-55: the loop over the lines
RECURSIVE LoadLoop(_, _, _)
LoadLoop(lines, fallback_tz, appended) ==
    IF lines = <<>> THEN [raised |-> FALSE, appended |-> appended]
    ELSE LET r == ParseLine(Head(lines), fallback_tz)
         IN  IF r.outcome = "raise"
             THEN [raised |-> TRUE, appended |-> appended]
             ELSE IF r.outcome = "skip"
             THEN LoadLoop(Tail(lines), fallback_tz, appended)
             ELSE LoadLoop(Tail(lines), fallback_tz, Append(appended, r.sample))

\* sorted() places an element after the elements that do not compare greater
RECURSIVE InsertBeforeEqual(_, _)
InsertBeforeEqual(sorted, x) ==
    IF sorted = <<>> THEN <<x>>
    ELSE IF QueryInstant(x) <= QueryInstant(Head(sorted)) THEN <<x>> \o sorted
    ELSE <<Head(sorted)>> \o InsertBeforeEqual(Tail(sorted), x)

RECURSIVE InsertByQueryTime(_, _)
InsertByQueryTime(sorted, x) ==
    IF sorted = <<>> THEN <<x>>
    ELSE IF QueryInstant(x) < QueryInstant(Head(sorted)) THEN <<x>> \o sorted
    ELSE <<Head(sorted)>> \o InsertByQueryTime(Tail(sorted), x)

\* line 56: sorted(samples, key=lambda sample: sample.query_time), stable
RECURSIVE SortedByQueryTime(_)
SortedByQueryTime(ss) ==
    IF ss = <<>> THEN <<>>
    ELSE InsertByQueryTime(SortedByQueryTime(SubSeq(ss, 1, Len(ss) - 1)), ss[Len(ss)])

\* load_samples(path, tzinfo=fallback_tz): exists is source.exists()
load_samples(exists, lines, fallback_tz) ==
    IF ~exists
    THEN [raised |-> FALSE, appended |-> <<>>, samples |-> <<>>]
    ELSE LET r == LoadLoop(lines, fallback_tz, <<>>)
         IN  IF r.raised
             THEN [raised |-> TRUE, appended |-> r.appended, samples |-> <<>>]
             ELSE [raised |-> FALSE, appended |-> r.appended,
                   samples |-> SortedByQueryTime(r.appended)]

----------------------------------------------------------------------------
(* state.py: the notification state on disk.                                *)
(* The file is missing, or holds a text: one that json.loads rejects        *)
(* ("garbage"), JSON that is no object ("nonobject"), or the text of an     *)
(* object, of which `written` of SaveChunks parts have reached the disk.    *)
(* A field of the object is absent, a number, an ISO date, an ISO datetime, *)
(* or a text that is none of these.                                         *)

JDate(d) == [kind |-> "date", value |-> d]

JDateTime(t) == [kind |-> "datetime", value |-> t]

MissingFile == [kind |-> "missing"]

GarbageFile == [kind |-> "garbage"]

NonObjectFile == [kind |-> "nonobject"]

\* write_text: the text reaches the disk in parts; 0 parts is the empty file
\* that open(..., "w") leaves
SaveChunks == 2

ObjectFile(payload, written) ==
    [kind |-> "object", payload |-> payload, written |-> written]

\* _parse_date(value)
_parse_date(value) == IF value.kind = "date" THEN Some(value.value) ELSE None

\* _parse_float(value)
_parse_float(value) == IF value.kind = "number" THEN Some(value.value) ELSE None

\* _parse_datetime(value)
_parse_datetime(value) ==
    IF value.kind = "datetime" THEN Some(value.value) ELSE None

\* json.loads(source.read_text()) raises JSONDecodeError: no JSON, or the
\* proper prefix of an object's text
NotJson(content) ==
    \/ content.kind = "garbage"
    \/ content.kind = "object" /\ content.written < SaveChunks

\* NotificationState.load(path): the state, or the call raises (payload.get
\* on a payload that is no dict, line 28)
load(content) ==
    IF content.kind = "missing" THEN Returned(DefaultState)
    ELSE IF NotJson(content) THEN Returned(DefaultState)
    ELSE IF content.kind = "nonobject" THEN Raised
    ELSE LET payload == content.payload
             high == _parse_float(payload.anomaly_integral_high)
             low == _parse_float(payload.anomaly_integral_low)
         IN  Returned(
                [departure_date |-> _parse_date(payload.departure_date),
                 departure_minutes |-> _parse_float(payload.departure_minutes),
                 pattern_alert_date |-> _parse_date(payload.pattern_alert_date),
                 anomaly_integral_high |-> IF high # None THEN high[1] ELSE 0,
                 anomaly_integral_low |-> IF low # None THEN low[1] ELSE 0,
                 anomaly_last_timestamp |->
                    _parse_datetime(payload.anomaly_last_timestamp)])

\* the payload with departure_minutes tested for truth, as the dates are
SavePayloadOmitsZeroMinutes(s) ==
    [departure_date |->
        IF s.departure_date # None THEN JDate(s.departure_date[1]) ELSE JMissing,
     departure_minutes |->
        IF s.departure_minutes # None /\ s.departure_minutes # Some(0)
        THEN JNumber(s.departure_minutes[1]) ELSE JMissing,
     pattern_alert_date |->
        IF s.pattern_alert_date # None THEN JDate(s.pattern_alert_date[1])
        ELSE JMissing,
     anomaly_integral_high |->
        IF s.anomaly_integral_high # 0 THEN JNumber(s.anomaly_integral_high)
        ELSE JMissing,
     anomaly_integral_low |->
        IF s.anomaly_integral_low # 0 THEN JNumber(s.anomaly_integral_low)
        ELSE JMissing,
     anomaly_last_timestamp |->
        IF s.anomaly_last_timestamp # None
        THEN JDateTime(s.anomaly_last_timestamp[1]) ELSE JMissing]

\* lines 42-54: the payload of save; a falsy field is left out
SavePayload(s) ==
    [departure_date |->
        IF s.departure_date # None THEN JDate(s.departure_date[1]) ELSE JMissing,
     departure_minutes |->
        IF s.departure_minutes # None THEN JNumber(s.departure_minutes[1])
        ELSE JMissing,
     pattern_alert_date |->
        IF s.pattern_alert_date # None THEN JDate(s.pattern_alert_date[1])
        ELSE JMissing,
     anomaly_integral_high |->
        IF s.anomaly_integral_high # 0 THEN JNumber(s.anomaly_integral_high)
        ELSE JMissing,
     anomaly_integral_low |->
        IF s.anomaly_integral_low # 0 THEN JNumber(s.anomaly_integral_low)
        ELSE JMissing,
     anomaly_last_timestamp |->
        IF s.anomaly_last_timestamp # None
        THEN JDateTime(s.anomaly_last_timestamp[1]) ELSE JMissing]

----------------------------------------------------------------------------
(* The integrator driven by a caller: every call is one action *)

MaxCalls == 5

FirstDay == 3

\* sample times a caller may pass, in any order: one per call five minutes
\* apart on a Thursday morning, and the same time on the Friday and the
\* Saturday after it
PatternTimes ==
    {At(FirstDay, 7, 30) + Mins(sample_interval_minutes * k) : k \in 0 .. MaxCalls - 1}
        \cup {At(FirstDay + d, 7, 30) : d \in {1, 2}}

PatternDates == {DateOf(t) : t \in PatternTimes}

\* current_duration_mins: 10.0, 52.0 and 60.0 minutes
PatternDurations == {Mins(10), Mins(52), Mins(60)}

\* baseline_duration_mins: absent, and 50.0 minutes
PatternBaselines == {None, Some(Mins(50))}

\* Scenario A: baseline 50, current 60, one sample every nominal interval
\* starting from the default state
ScenarioACall(k, sample_time, current, base) ==
    /\ sample_time = At(FirstDay, 7, 30) + Mins(sample_interval_minutes * k)
    /\ current = Mins(60)
    /\ base = Some(Mins(50))

NoCall ==
    [op |-> "none", message |-> None, state_changed |-> FALSE,
     integral_value |-> None]

InitState(s) ==
    /\ departure_date = s.departure_date
    /\ departure_minutes = s.departure_minutes
    /\ pattern_alert_date = s.pattern_alert_date
    /\ anomaly_integral_high = s.anomaly_integral_high
    /\ anomaly_integral_low = s.anomaly_integral_low
    /\ anomaly_last_timestamp = s.anomaly_last_timestamp

\* the state object in memory becomes s
StateBecomes(s) ==
    /\ departure_date' = s.departure_date
    /\ departure_minutes' = s.departure_minutes
    /\ pattern_alert_date' = s.pattern_alert_date
    /\ anomaly_integral_high' = s.anomaly_integral_high
    /\ anomaly_integral_low' = s.anomaly_integral_low
    /\ anomaly_last_timestamp' = s.anomaly_last_timestamp

InitTrace ==
    /\ calls = 0
    /\ last = NoCall
    /\ alerts_on = [d \in PatternDates |-> 0]
    /\ scenario = 0
    /\ notified = <<>>

InitBaselineIdle ==
    /\ samples = <<>>
    /\ query = None
    /\ baseline = None

\* no state file, and no save in progress
InitDiskIdle ==
    /\ state_file = [kind |-> "missing"]
    /\ saving = None

InitFileIdle ==
    /\ file = <<>>
    /\ pruned = None
    /\ InitDiskIdle

InitPattern ==
    /\ InitState(DefaultState)
    /\ InitTrace
    /\ InitBaselineIdle
    /\ InitFileIdle

\* one call of evaluate_pattern_alert on the shared state object, which the
\* function mutates in place
PatternCall(sample_time, current, base) ==
    LET r == evaluate_pattern_alert(NotificationState, sample_time, current, base)
    IN  /\ departure_date' = r.state.departure_date
        /\ departure_minutes' = r.state.departure_minutes
        /\ pattern_alert_date' = r.state.pattern_alert_date
        /\ anomaly_integral_high' = r.state.anomaly_integral_high
        /\ anomaly_integral_low' = r.state.anomaly_integral_low
        /\ anomaly_last_timestamp' = r.state.anomaly_last_timestamp
        /\ calls' = calls + 1
        /\ last' = [op |-> "pattern", message |-> r.message,
                    state_changed |-> r.state_changed,
                    integral_value |-> r.integral_value]
        /\ alerts_on' = IF r.message # None
                        THEN [alerts_on EXCEPT ![DateOf(sample_time)] = @ + 1]
                        ELSE alerts_on
        /\ scenario' = IF scenario = calls /\ ScenarioACall(calls, sample_time, current, base)
                       THEN scenario + 1
                       ELSE Off
        /\ UNCHANGED <<notified, baselineVars, fileVars>>

PatternAlert(sample_time, current, base) ==
    /\ calls < MaxCalls
    /\ PatternCall(sample_time, current, base)

NextPattern ==
    \E sample_time \in PatternTimes, current \in PatternDurations,
       base \in PatternBaselines :
        PatternAlert(sample_time, current, base)

SpecPattern == InitPattern /\ [][NextPattern]_vars

----------------------------------------------------------------------------
(* Single calls of the integrator, observed with their arguments and the   *)
(* state they started from                                                  *)

MaxObservations == 2

\* sample times: Thursday 07:30 and ten minutes later, Friday 07:30 (a gap
\* above max_sample_gap_minutes), and Saturday 07:30
ObserveTimes ==
    {At(FirstDay, 7, 30), At(FirstDay, 7, 40), At(FirstDay + 1, 7, 30),
     At(FirstDay + 2, 7, 30)}

\* baseline_duration_mins: absent, 0.0, and 50.0 minutes
ObserveBaselines == {None, Some(0), Some(Mins(50))}

\* the state a run starts from: the default one, or the one left by a run
\* that alerted on Thursday 07:30 (travel time 10 against a baseline of 50)
ObserveStates ==
    {DefaultState,
     evaluate_pattern_alert(DefaultState, At(FirstDay, 7, 30), Mins(10),
                            Some(Mins(50))).state}

InitObserve ==
    /\ \E s \in ObserveStates : InitState(s)
    /\ calls = 0
    /\ last = [op |-> "none"]
    /\ alerts_on = [d \in PatternDates |-> 0]
    /\ scenario = 0
    /\ notified = <<>>
    /\ InitBaselineIdle
    /\ InitFileIdle

\* one call of evaluate_pattern_alert on the state object
Observe(sample_time, current, base) ==
    LET r == evaluate_pattern_alert(NotificationState, sample_time, current, base)
    IN  /\ calls < MaxObservations
        /\ StateBecomes(r.state)
        /\ calls' = calls + 1
        /\ last' = [op |-> "observe", before |-> NotificationState,
                    sample_time |-> sample_time, current |-> current,
                    base |-> base, message |-> r.message,
                    state_changed |-> r.state_changed]
        /\ UNCHANGED <<alerts_on, scenario, notified, baselineVars, fileVars>>

NextObserve ==
    \E sample_time \in ObserveTimes, current \in PatternDurations,
       base \in ObserveBaselines :
        Observe(sample_time, current, base)

SpecObserve == InitObserve /\ [][NextObserve]_vars

----------------------------------------------------------------------------
(* A sustained shift: from the default state, one observation every        *)
(* nominal interval, all with the same travel time against the same        *)
(* baseline                                                                 *)

MaxSustainedCalls == 13

\* the first sample: Thursday 07:30, or Thursday 23:30 (the stream then
\* runs into Friday)
SustainedStarts == {At(FirstDay, 7, 30), At(FirstDay, 23, 30)}

SustainedBaseline == Mins(50)

\* minutes beyond the deadband: 0.5, 3.7, 4.0 and 8.0
SustainedExcesses == {TicksPerMinute \div 2, Mins(4) - 6, Mins(4), Mins(8)}

\* current_duration_mins: the baseline, plus or minus the deadband and one
\* of the excesses
SustainedDurations ==
    {SustainedBaseline + deadband_minutes + e : e \in SustainedExcesses}
        \cup {SustainedBaseline - deadband_minutes - e : e \in SustainedExcesses}

InitSustained ==
    /\ InitState(DefaultState)
    /\ calls = 0
    /\ \E start \in SustainedStarts, current \in SustainedDurations :
          last = [op |-> "stream", start |-> start, current |-> current,
                  alerted_at |-> 0]
    /\ alerts_on = [d \in PatternDates |-> 0]
    /\ scenario = 0
    /\ notified = <<>>
    /\ InitBaselineIdle
    /\ InitFileIdle

\* the next observation of the stream is evaluated
SustainedSample ==
    LET sample_time == last.start + Mins(sample_interval_minutes * calls)
        r == evaluate_pattern_alert(NotificationState, sample_time, last.current,
                                    Some(SustainedBaseline))
    IN  /\ calls < MaxSustainedCalls
        /\ StateBecomes(r.state)
        /\ calls' = calls + 1
        /\ last' = [last EXCEPT !.alerted_at =
                        IF @ = 0 /\ r.message # None THEN calls + 1 ELSE @]
        /\ UNCHANGED <<alerts_on, scenario, notified, baselineVars, fileVars>>

NextSustained == SustainedSample

SpecSustained == InitSustained /\ [][NextSustained]_vars

----------------------------------------------------------------------------
(* test_pattern_alert_only_once_per_day: baseline 12, samples of 17.0, 17.2 *)
(* and 17.5 minutes, five minutes apart from Thursday 07:30, on the default *)
(* state                                                                    *)

MaxTestCalls == 3

TestBaseline == Mins(12)

TestTimes == {At(FirstDay, 7, 30), At(FirstDay, 7, 35), At(FirstDay, 7, 40)}

\* 17.0, 17.2 and 17.5 minutes
TestDurations == {Mins(17), Mins(17) + 4, Mins(17) + 10}

\* the k-th call of the test
TestCall(k, sample_time, current) ==
    \/ k = 0 /\ sample_time = At(FirstDay, 7, 30) /\ current = Mins(17)
    \/ k = 1 /\ sample_time = At(FirstDay, 7, 35) /\ current = Mins(17) + 4
    \/ k = 2 /\ sample_time = At(FirstDay, 7, 40) /\ current = Mins(17) + 10

InitTest ==
    /\ InitState(DefaultState)
    /\ calls = 0
    /\ last = [op |-> "none"]
    /\ alerts_on = [d \in PatternDates |-> 0]
    /\ scenario = 0
    /\ notified = <<>>
    /\ InitBaselineIdle
    /\ InitFileIdle

\* one call of evaluate_pattern_alert against the test's baseline
TestObserve(sample_time, current) ==
    LET r == evaluate_pattern_alert(NotificationState, sample_time, current,
                                    Some(TestBaseline))
    IN  /\ calls < MaxTestCalls
        /\ StateBecomes(r.state)
        /\ calls' = calls + 1
        /\ last' = [op |-> "observe", before |-> NotificationState,
                    sample_time |-> sample_time, current |-> current,
                    base |-> Some(TestBaseline), message |-> r.message,
                    state_changed |-> r.state_changed]
        /\ scenario' = IF scenario = calls /\ TestCall(calls, sample_time, current)
                       THEN scenario + 1
                       ELSE Off
        /\ UNCHANGED <<alerts_on, notified, baselineVars, fileVars>>

NextTest ==
    \E sample_time \in TestTimes, current \in TestDurations :
        TestObserve(sample_time, current)

SpecTest == InitTest /\ [][NextTest]_vars

----------------------------------------------------------------------------
(* The integrator left to decay: a state loaded from the state file, then   *)
(* weekday observations inside the deadband at increasing sample times      *)

MaxDecayMinutes == 300

\* accumulators as state.py:28-35 may load them: zero, below the epsilon,
\* and above it
DecayStartValues == {0, Epsilon \div 2, Epsilon + Epsilon \div 2, 5 * Epsilon}

\* minutes between one observation and the next: the nominal interval, and a
\* gap longer than max_sample_gap_minutes
DecayGaps ==
    {Mins(sample_interval_minutes), Mins(max_sample_gap_minutes + sample_interval_minutes)}

\* durations within deadband_minutes of the 50.0 minute baseline
InBandDurations ==
    {Mins(50) - deadband_minutes, Mins(50), Mins(50) + deadband_minutes}

InitDecay ==
    /\ \E high \in DecayStartValues, low \in DecayStartValues :
          InitState([DefaultState EXCEPT
                        !.anomaly_integral_high = high,
                        !.anomaly_integral_low = low,
                        !.anomaly_last_timestamp = Some(At(FirstDay, 7, 30))])
    /\ InitTrace
    /\ InitBaselineIdle
    /\ InitFileIdle

InBandObservation(gap, current) ==
    LET sample_time == anomaly_last_timestamp[1] + gap
    IN  /\ sample_time <= At(FirstDay, 7, 30) + Mins(MaxDecayMinutes)
        /\ PatternCall(sample_time, current, Some(Mins(50)))

NextDecay ==
    \E gap \in DecayGaps, current \in InBandDurations :
        InBandObservation(gap, current)

\* the observations keep coming for as long as the caller's schedule runs
SpecDecay == InitDecay /\ [][NextDecay]_vars /\ WF_vars(NextDecay)

----------------------------------------------------------------------------
(* The advisor driven by a caller: every cycle is one action *)

MaxDepartureCalls == 3

\* target arrivals: Thursday 08:20, Thursday 00:30 (the departure falls on
\* Wednesday evening) and Saturday 08:20
DepartureTargets == {At(FirstDay, 8, 20), At(FirstDay, 0, 30), At(FirstDay + 2, 8, 20)}

DepartureNows ==
    {At(FirstDay - 1, 23, 10), At(FirstDay - 1, 23, 40), At(FirstDay, 6, 30),
     At(FirstDay, 7, 5), At(FirstDay, 7, 20), At(FirstDay, 7, 30),
     At(FirstDay + 2, 7, 5)}

\* current_duration_mins: 20, 40, 59.95, 60, 60.1, 60.15 and 70 minutes
DepartureDurations ==
    {Mins(20), Mins(40), Mins(60) - 1, Mins(60), Mins(60) + ResendTolerance,
     Mins(60) + ResendTolerance + 1, Mins(70)}

\* the caller's configuration: lead time 30 minutes, baseline 50 minutes
LeadTime == Mins(30)

DepartureBaseline == Mins(50)

\* Scenario B: target arrival Thursday 08:20, now 07:05, duration 60 on the
\* default state; then any later call for that arrival with duration 40
ScenarioBCall(k, now, target_arrival, current) ==
    /\ target_arrival = At(FirstDay, 8, 20)
    /\ \/ k = 0 /\ now = At(FirstDay, 7, 5) /\ current = Mins(60)
       \/ k = 1 /\ now >= At(FirstDay, 7, 5) /\ current = Mins(40)

InitDeparture ==
    /\ InitState(DefaultState)
    /\ InitTrace
    /\ InitBaselineIdle
    /\ InitFileIdle

\* one cycle: the advisor decides, the caller stores what was notified
DepartureCycle(now, target_arrival, current) ==
    LET decision == evaluate_departure_notification(
                        now, ClockTime(target_arrival), target_arrival, current,
                        DepartureBaseline, LeadTime, NotificationState)
        s == StoreDeparture(NotificationState, target_arrival, decision)
    IN  /\ calls < MaxDepartureCalls
        /\ departure_date' = s.departure_date
        /\ departure_minutes' = s.departure_minutes
        /\ pattern_alert_date' = s.pattern_alert_date
        /\ anomaly_integral_high' = s.anomaly_integral_high
        /\ anomaly_integral_low' = s.anomaly_integral_low
        /\ anomaly_last_timestamp' = s.anomaly_last_timestamp
        /\ calls' = calls + 1
        /\ last' = [op |-> "departure", now |-> now,
                    target_arrival |-> target_arrival, current |-> current,
                    decision |-> decision,
                    stored_date |-> departure_date,
                    stored_minutes |-> departure_minutes]
        /\ notified' = IF decision = None
                       THEN notified
                       ELSE Append(notified,
                                   [target_date |-> DateOf(target_arrival),
                                    departure_minutes |-> decision[1].departure_minutes,
                                    target_arrival |-> target_arrival,
                                    recommended_departure |-> target_arrival - current])
        /\ scenario' = IF scenario = calls /\ ScenarioBCall(calls, now, target_arrival, current)
                       THEN scenario + 1
                       ELSE Off
        /\ UNCHANGED <<alerts_on, baselineVars, fileVars>>

NextDeparture ==
    \E now \in DepartureNows, target_arrival \in DepartureTargets,
       current \in DepartureDurations :
        DepartureCycle(now, target_arrival, current)

SpecDeparture == InitDeparture /\ [][NextDeparture]_vars

----------------------------------------------------------------------------
(* Both decision components on one state object: a cycle calls the advisor *)
(* and the integrator with the same travel time, in either order           *)

MaxCycles == 2

\* the advisor with its state afterwards, keeping the fields it stored
AdvisorCallStoring(now, target_arrival, current, s) ==
    LET decision == evaluate_departure_notification(
                        now, ClockTime(target_arrival), target_arrival, current,
                        DepartureBaseline, LeadTime, s)
    IN  [decision |-> decision, state |-> StoreDeparture(s, target_arrival, decision)]

\* evaluate_departure_notification with the state object as the call leaves
\* it: lines 24-57 read the state and assign none of its fields
AdvisorCall(now, target_arrival, current, s) ==
    LET decision == evaluate_departure_notification(
                        now, ClockTime(target_arrival), target_arrival, current,
                        DepartureBaseline, LeadTime, s)
    IN  [decision |-> decision, state |-> s]

\* the state a cycle starts from: the default one, one with a departure
\* notice for Thursday 07:20, and that one after an alert on Wednesday
CycleStates ==
    {DefaultState,
     [DefaultState EXCEPT !.departure_date = Some(FirstDay),
                          !.departure_minutes = Some(Mins(440))],
     [DefaultState EXCEPT !.departure_date = Some(FirstDay),
                          !.departure_minutes = Some(Mins(440)),
                          !.pattern_alert_date = Some(FirstDay - 1),
                          !.anomaly_last_timestamp = Some(At(FirstDay - 1, 17, 0))]}

\* now, also the sample time: Thursday 06:30 and 07:05
CycleNows == {At(FirstDay, 6, 30), At(FirstDay, 7, 5)}

CycleTarget == At(FirstDay, 8, 20)

\* travel times of 60, 70 and 90 minutes
CycleDurations == {Mins(60), Mins(70), Mins(90)}

InitCycle ==
    /\ \E s \in CycleStates : InitState(s)
    /\ calls = 0
    /\ last = [op |-> "none"]
    /\ alerts_on = [d \in PatternDates |-> 0]
    /\ scenario = 0
    /\ notified = <<>>
    /\ InitBaselineIdle
    /\ InitFileIdle

\* the advisor is called first, the integrator second
AdvisorFirst(now, current) ==
    LET a == AdvisorCall(now, CycleTarget, current, NotificationState)
        r == evaluate_pattern_alert(a.state, now, current, Some(DepartureBaseline))
    IN  /\ calls < MaxCycles
        /\ StateBecomes(r.state)
        /\ calls' = calls + 1
        /\ last' = [op |-> "cycle", order |-> "advisor_first",
                    before |-> NotificationState, now |-> now,
                    current |-> current, after_first |-> a.state,
                    decision |-> a.decision, message |-> r.message]
        /\ UNCHANGED <<alerts_on, scenario, notified, baselineVars, fileVars>>

\* the integrator is called first, the advisor second
PatternFirst(now, current) ==
    LET r == evaluate_pattern_alert(NotificationState, now, current,
                                    Some(DepartureBaseline))
        a == AdvisorCall(now, CycleTarget, current, r.state)
    IN  /\ calls < MaxCycles
        /\ StateBecomes(a.state)
        /\ calls' = calls + 1
        /\ last' = [op |-> "cycle", order |-> "pattern_first",
                    before |-> NotificationState, now |-> now,
                    current |-> current, after_first |-> r.state,
                    decision |-> a.decision, message |-> r.message]
        /\ UNCHANGED <<alerts_on, scenario, notified, baselineVars, fileVars>>

NextCycle ==
    \E now \in CycleNows, current \in CycleDurations :
        \/ AdvisorFirst(now, current)
        \/ PatternFirst(now, current)

SpecCycle == InitCycle /\ [][NextCycle]_vars

----------------------------------------------------------------------------
(* The estimator applied to a history that is edited between calls *)

MaxSamples == 3

\* the target: Monday of the following week, 08:00
TargetDeparture == At(FirstDay + 4, 8, 0)

\* departure times of the samples: 08:02 (the target's five-minute bucket) on
\* Thursday and Friday (history), on Saturday, on the target Monday and on the
\* Tuesday after it, and Friday 08:05 (the next bucket)
SampleTimes ==
    {At(FirstDay + d, 8, 2) : d \in {0, 1, 2, 4, 5}} \cup {At(FirstDay + 1, 8, 5)}

\* traffic_duration_mins: 50 and 61 minutes
SampleDurations == {Mins(50), Mins(61)}

SampleSet ==
    [departure_time : SampleTimes, traffic_duration_mins : SampleDurations]

\* keyword arguments <<max_weekdays, ema_span>>: the defaults, a single
\* weekday of history, a span of 1, and a span of 0; bucket_minutes = 5
Queries ==
    {[target_departure |-> TargetDeparture, max_weekdays |-> a[1],
      bucket_minutes |-> 5, ema_span |-> a[2]] :
        a \in {<<5, 5>>, <<1, 5>>, <<5, 1>>, <<5, 0>>}}

Estimate(ss, q) ==
    compute_bucket_ema_baseline(ss, q.target_departure, q.max_weekdays,
                                q.bucket_minutes, q.ema_span)

InitBaseline ==
    /\ InitState(DefaultState)
    /\ InitTrace
    /\ InitFileIdle
    /\ samples = <<>>
    /\ \E q \in Queries : query = Some(q)
    /\ baseline = Estimate(samples, query[1])

\* a sample is appended to the history and the baseline is estimated again
AppendSample(x) ==
    /\ Len(samples) < MaxSamples
    /\ samples' = Append(samples, x)
    /\ baseline' = Estimate(samples', query[1])
    /\ UNCHANGED <<query, stateVars, traceVars, fileVars>>

\* a sample is removed
RemoveSample(i) ==
    /\ samples' = SubSeq(samples, 1, i - 1) \o SubSeq(samples, i + 1, Len(samples))
    /\ baseline' = Estimate(samples', query[1])
    /\ UNCHANGED <<query, stateVars, traceVars, fileVars>>

\* a sample is changed in place: its departure time or its duration
ChangeSample(i, x) ==
    /\ samples[i] # x
    /\ \/ samples[i].departure_time = x.departure_time
       \/ samples[i].traffic_duration_mins = x.traffic_duration_mins
    /\ samples' = [samples EXCEPT ![i] = x]
    /\ baseline' = Estimate(samples', query[1])
    /\ UNCHANGED <<query, stateVars, traceVars, fileVars>>

NextBaseline ==
    \/ \E x \in SampleSet : AppendSample(x)
    \/ \E i \in 1 .. Len(samples) : RemoveSample(i)
    \/ \E i \in 1 .. Len(samples), x \in SampleSet : ChangeSample(i, x)

SpecBaseline == InitBaseline /\ [][NextBaseline]_vars

----------------------------------------------------------------------------
(* The estimator called with any configuration, on a short history *)

MaxConfigSamples == 2

\* values of max_weekdays, bucket_minutes and ema_span: negative, zero, and
\* the default
ConfigValues == {0 - 1, 0, 5}

ConfigQueries ==
    {[target_departure |-> TargetDeparture, max_weekdays |-> w,
      bucket_minutes |-> b, ema_span |-> e] :
        w \in ConfigValues, b \in ConfigValues, e \in ConfigValues}

InitConfig ==
    /\ InitState(DefaultState)
    /\ InitTrace
    /\ InitFileIdle
    /\ samples = <<>>
    /\ \E q \in ConfigQueries : query = Some(q)
    /\ baseline = Estimate(samples, query[1])

\* the caller changes the keyword arguments and estimates again
Configure(q) ==
    /\ query # Some(q)
    /\ query' = Some(q)
    /\ baseline' = Estimate(samples, q)
    /\ UNCHANGED <<samples, stateVars, traceVars, fileVars>>

NextConfig ==
    \/ \E q \in ConfigQueries : Configure(q)
    \/ \E x \in SampleSet : Len(samples) < MaxConfigSamples /\ AppendSample(x)
    \/ \E i \in 1 .. Len(samples) : RemoveSample(i)

SpecConfig == InitConfig /\ [][NextConfig]_vars

----------------------------------------------------------------------------
(* The estimator on a history of several weekdays *)

\* departure times: 08:02 on Wednesday, Thursday, Friday and Saturday
\* before the target Monday, and Friday 08:05 (the next bucket)
HistoryTimes ==
    {At(FirstDay + d, 8, 2) : d \in {0 - 1, 0, 1, 2}} \cup {At(FirstDay + 1, 8, 5)}

HistorySet ==
    [departure_time : HistoryTimes, traffic_duration_mins : SampleDurations]

\* keyword arguments <<max_weekdays, ema_span>>; bucket_minutes = 5
HistoryQueries ==
    {[target_departure |-> TargetDeparture, max_weekdays |-> a[1],
      bucket_minutes |-> 5, ema_span |-> a[2]] :
        a \in {<<5, 5>>, <<2, 5>>, <<2, 1>>, <<1, 2>>}}

InitHistory ==
    /\ InitState(DefaultState)
    /\ InitTrace
    /\ InitFileIdle
    /\ samples = <<>>
    /\ \E q \in HistoryQueries : query = Some(q)
    /\ baseline = Estimate(samples, query[1])

NextHistory ==
    \/ \E x \in HistorySet : AppendSample(x)
    \/ \E i \in 1 .. Len(samples) : RemoveSample(i)

SpecHistory == InitHistory /\ [][NextHistory]_vars

----------------------------------------------------------------------------
(* The sample store: lines are appended, and the file is pruned *)

MaxLines == 3

\* the cutoff's wall clock: Thursday 00:00, at UTC or at UTC+1
CutoffClock == At(FirstDay, 0, 0)

Cutoffs == {[clock |-> CutoffClock, offset |-> o] : o \in {0, Mins(60)}}

\* wall clocks of the records: an hour and a tick before the cutoff's wall
\* clock, an hour before it, a tick before it, and equal to it
RecordClocks ==
    {CutoffClock - Mins(60) - 1, CutoffClock - Mins(60), CutoffClock - 1, CutoffClock}

\* a record's timestamp is naive or carries the offset +00:00
RecordOffsets == {None, Some(0)}

Lines ==
    {[kind |-> "blank", padded |-> TRUE, canonical |-> FALSE, query_time |-> NoQueryTime]}
        \cup {[kind |-> "garbage", padded |-> p, canonical |-> FALSE,
               query_time |-> NoQueryTime] : p \in BOOLEAN}
        \cup {[kind |-> "nonobject", padded |-> FALSE, canonical |-> TRUE,
               query_time |-> NoQueryTime]}
        \cup {[kind |-> "object", padded |-> FALSE, canonical |-> TRUE,
               query_time |-> q] : q \in {NoQueryTime, BadQueryTime}}
        \cup {[kind |-> "object", padded |-> FALSE, canonical |-> c,
               query_time |-> Timestamp(k, o)] :
                  c \in BOOLEAN, k \in RecordClocks, o \in RecordOffsets}

InitStore ==
    /\ InitState(DefaultState)
    /\ InitTrace
    /\ InitBaselineIdle
    /\ file = <<>>
    /\ pruned = None
    /\ InitDiskIdle

\* a writer appends one line (monitor.append_sample, or anything else)
AppendLine(line) ==
    /\ Len(file) < MaxLines
    /\ file' = Append(file, line)
    /\ pruned' = None
    /\ UNCHANGED <<stateVars, traceVars, baselineVars, diskVars>>

\* prune_jsonl_history on the existing file
Prune(cutoff) ==
    LET r == prune_jsonl_history(TRUE, file, cutoff)
    IN  /\ pruned = None
        /\ file' = r.file
        /\ pruned' = Some([cutoff |-> cutoff, before |-> file,
                           raised |-> r.raised, removed |-> r.removed])
        /\ UNCHANGED <<stateVars, traceVars, baselineVars, diskVars>>

NextStore ==
    \/ \E line \in Lines : AppendLine(line)
    \/ \E cutoff \in Cutoffs : Prune(cutoff)

SpecStore == InitStore /\ [][NextStore]_vars

----------------------------------------------------------------------------
(* The sample store read back: lines are appended, and the file is loaded *)

MaxLoadLines == 3

\* wall clocks of the records' query_time: Thursday 07:55 and 08:55
QueryClocks == {At(FirstDay, 7, 55), At(FirstDay, 8, 55)}

\* a record's timestamps are naive or carry the offset +01:00
QueryOffsets == {None, Some(Mins(60))}

\* the caller's tzinfo: UTC (the default) or UTC+1
FallbackZones == {0, Mins(60)}

\* a complete record: departure five minutes after the query
FullRecord(clock, offset, duration) ==
    [kind |-> "object",
     query_time |-> Timestamp(clock, offset),
     departure_time |-> Timestamp(clock + Mins(5), offset),
     origin |-> "Origin", destination |-> "Destination",
     clear_duration_mins |-> JMissing,
     traffic_duration_mins |-> JNumber(duration)]

NoRecord(kind) ==
    [kind |-> kind, query_time |-> NoQueryTime, departure_time |-> NoQueryTime,
     origin |-> "", destination |-> "",
     clear_duration_mins |-> JMissing, traffic_duration_mins |-> JMissing]

\* the lines a file may hold: blank, not JSON, JSON that is no object,
\* records lacking departure_time or with a bad query_time, a text or a zero
\* as traffic duration, a text as clear duration, and complete records
LoadLines ==
    LET full == FullRecord(At(FirstDay, 7, 55), Some(Mins(60)), Mins(50))
    IN  {NoRecord("blank"), NoRecord("garbage"), NoRecord("nonobject")}
            \cup {[full EXCEPT !.departure_time = NoQueryTime],
                  [full EXCEPT !.query_time = BadQueryTime],
                  [full EXCEPT !.traffic_duration_mins = JText],
                  [full EXCEPT !.traffic_duration_mins = JNumber(0)],
                  [full EXCEPT !.clear_duration_mins = JText],
                  [full EXCEPT !.clear_duration_mins = JNumber(Mins(49))]}
            \cup {FullRecord(k, o, d) :
                    k \in QueryClocks, o \in QueryOffsets, d \in SampleDurations}

NotLoaded == [op |-> "none"]

InitLoad ==
    /\ InitState(DefaultState)
    /\ calls = 0
    /\ last = NotLoaded
    /\ alerts_on = [d \in PatternDates |-> 0]
    /\ scenario = 0
    /\ notified = <<>>
    /\ InitBaselineIdle
    /\ file = <<>>
    /\ pruned = None
    /\ InitDiskIdle

\* a writer appends one line to the series
AppendRecord(line) ==
    /\ Len(file) < MaxLoadLines
    /\ file' = Append(file, line)
    /\ last' = NotLoaded
    /\ UNCHANGED <<stateVars, calls, alerts_on, scenario, notified,
                   baselineVars, pruned, diskVars>>

\* load_samples on the existing file
LoadSamples(fallback_tz) ==
    LET r == load_samples(TRUE, file, fallback_tz)
    IN  /\ last' = [op |-> "load", fallback_tz |-> fallback_tz,
                    raised |-> r.raised, appended |-> r.appended,
                    samples |-> r.samples]
        /\ UNCHANGED <<stateVars, calls, alerts_on, scenario, notified,
                       baselineVars, fileVars>>

NextLoad ==
    \/ \E line \in LoadLines : AppendRecord(line)
    \/ \E fallback_tz \in FallbackZones : LoadSamples(fallback_tz)

SpecLoad == InitLoad /\ [][NextLoad]_vars

----------------------------------------------------------------------------
(* The notification state across process runs: a run loads the file, the   *)
(* decisions mutate the state in memory, and save writes it back; the      *)
(* process may die while it saves, and the file may be damaged from        *)
(* outside between runs                                                     *)

\* states the decisions leave in memory: nothing yet, a departure notice
\* for Thursday 07:20, one for 00:00, an integrator that accumulated 40
\* on the high side, one that accumulated 15 on the low side, and an alert
\* issued on Thursday
StateSamples ==
    {DefaultState,
     [DefaultState EXCEPT !.departure_date = Some(FirstDay),
                          !.departure_minutes = Some(Mins(440))],
     [DefaultState EXCEPT !.departure_date = Some(FirstDay),
                          !.departure_minutes = Some(0)],
     [DefaultState EXCEPT !.anomaly_integral_high = 40 * IntegralScale,
                          !.anomaly_last_timestamp = Some(At(FirstDay, 7, 30))],
     [DefaultState EXCEPT !.anomaly_integral_low = 15 * IntegralScale,
                          !.anomaly_last_timestamp = Some(At(FirstDay, 7, 30))],
     [DefaultState EXCEPT !.pattern_alert_date = Some(FirstDay),
                          !.anomaly_last_timestamp = Some(At(FirstDay, 7, 50))]}

\* an object whose fields are all texts that parse as nothing
TextPayload ==
    [departure_date |-> JText, departure_minutes |-> JText,
     pattern_alert_date |-> JText, anomaly_integral_high |-> JText,
     anomaly_integral_low |-> JText, anomaly_last_timestamp |-> JText]

\* damaged files: no JSON, JSON that is no object, an object of bad
\* fields, and an object with one bad field among good ones
DamagedFiles ==
    {GarbageFile, NonObjectFile, ObjectFile(TextPayload, SaveChunks),
     ObjectFile([TextPayload EXCEPT !.departure_minutes = JNumber(Mins(440)),
                                    !.anomaly_integral_low = JNumber(IntegralScale)],
                SaveChunks)}

NoStateCall == [op |-> "none"]

InitDisk ==
    /\ InitState(DefaultState)
    /\ calls = 0
    /\ last = NoStateCall
    /\ alerts_on = [d \in PatternDates |-> 0]
    /\ scenario = 0
    /\ notified = <<>>
    /\ InitBaselineIdle
    /\ InitFileIdle

\* NotificationState.load at the start of a run; when it raises the run
\* ends there
LoadState ==
    LET r == load(state_file)
    IN  /\ saving = None
        /\ IF r.raised THEN UNCHANGED stateVars ELSE StateBecomes(r.value)
        /\ last' = [op |-> "load", content |-> state_file, raised |-> r.raised,
                    before |-> NotificationState]
        /\ UNCHANGED <<calls, alerts_on, scenario, notified, baselineVars,
                       file, pruned, diskVars>>

\* the decisions of a run leave the state s in memory
Decide(s) ==
    /\ saving = None
    /\ s # NotificationState
    /\ StateBecomes(s)
    /\ last' = [op |-> "decide"]
    /\ UNCHANGED <<calls, alerts_on, scenario, notified, baselineVars, fileVars>>

\* save, line 55: write_text opens the file for writing, which truncates it
SaveOpen ==
    LET payload == SavePayload(NotificationState)
    IN  /\ saving = None
        /\ saving' = Some([before |-> state_file, payload |-> payload])
        /\ state_file' = ObjectFile(payload, 0)
        /\ last' = [op |-> "open"]
        /\ UNCHANGED <<stateVars, calls, alerts_on, scenario, notified,
                       baselineVars, file, pruned>>

\* save, line 55: the next part of the text reaches the disk; after the
\* last one the file is closed and save returns
SaveWrite ==
    /\ saving # None
    /\ state_file' = ObjectFile(saving[1].payload, state_file.written + 1)
    /\ IF state_file.written + 1 = SaveChunks
       THEN saving' = None /\ last' = [op |-> "saved"]
       ELSE UNCHANGED saving /\ last' = [op |-> "write"]
    /\ UNCHANGED <<stateVars, calls, alerts_on, scenario, notified,
                   baselineVars, file, pruned>>

\* the process dies during save; the next run starts with a fresh memory
Crash ==
    /\ saving # None
    /\ saving' = None
    /\ StateBecomes(DefaultState)
    /\ last' = [op |-> "crash", before |-> saving[1].before,
                payload |-> saving[1].payload]
    /\ UNCHANGED <<calls, alerts_on, scenario, notified, baselineVars,
                   file, pruned, state_file>>

\* between runs the file is damaged, or deleted
Damage(content) ==
    /\ saving = None
    /\ state_file # content
    /\ state_file' = content
    /\ last' = [op |-> "damage"]
    /\ UNCHANGED <<stateVars, calls, alerts_on, scenario, notified,
                   baselineVars, file, pruned, saving>>

NextDisk ==
    \/ LoadState
    \/ \E s \in StateSamples : Decide(s)
    \/ SaveOpen
    \/ SaveWrite
    \/ Crash
    \/ \E content \in DamagedFiles \cup {MissingFile} : Damage(content)

SpecDisk == InitDisk /\ [][NextDisk]_vars

----------------------------------------------------------------------------
(* Claims about the integrator, checked under SpecPattern *)

\* C1: starting from the default NotificationState, after any sequence of
\* evaluate_pattern_alert calls anomaly_integral_high and
\* anomaly_integral_low are never both non-zero.
C1_NeverBothPositive ==
    anomaly_integral_high = 0 \/ anomaly_integral_low = 0

\* a "shorter" run is being accumulated after at least one earlier call, so
\* the "longer" accumulator has been cleared or has stayed clear
C1_Witness ==
    /\ calls >= 2
    /\ last.op = "pattern"
    /\ anomaly_integral_low > 0
    /\ anomaly_integral_high = 0

\* C2: across any sequence of evaluate_pattern_alert calls sharing one state,
\* at most one call whose sample_time falls on a given calendar date returns
\* an alert message.
C2_OneAlertPerDate ==
    \A d \in PatternDates : alerts_on[d] <= 1

ScenarioAFinal == 184 * IntegralScale + IntegralScale \div 3

\* C7 as stated: Scenario A (baseline 50, current 60, deadband 2, threshold
\* 180, interval 5, default state): the first sample contributes 40 and gives
\* no alert, calls one to four give no alert, the five samples accumulate 200,
\* the fifth call returns an alert and leaves both integrals at zero.
C7_ScenarioA_Accumulates200 ==
    /\ scenario = 1 => last.integral_value = Some(40 * IntegralScale)
    /\ scenario \in 1 .. 4 => last.message = None
    /\ scenario = 5 =>
          /\ last.integral_value = Some(200 * IntegralScale)
          /\ last.message # None
          /\ anomaly_integral_high = 0
          /\ anomaly_integral_low = 0

\* C7 amended: the same scenario, except that the accumulated value the fifth
\* call compares with the threshold is about 184.33 (each call first decays
\* the accumulator by exp(-5/120)), not 200; it is still >= 180.
C7_ScenarioA ==
    /\ scenario = 1 => last.integral_value = Some(40 * IntegralScale)
    /\ scenario \in 1 .. 4 => last.message = None
    /\ scenario = 5 =>
          /\ last.integral_value # None
          /\ Abs(last.integral_value[1] - ScenarioAFinal) <= IntegralScale \div 100
          /\ last.integral_value[1] >= integral_threshold
          /\ last.message = Some(<<"longer", Mins(10), Mins(50)>>)
          /\ anomaly_integral_high = 0
          /\ anomaly_integral_low = 0

C7_Witness ==
    /\ scenario = 5
    /\ last.message # None

----------------------------------------------------------------------------
(* Claims about decay, checked under SpecDecay *)

\* C10: starting from any integrator state, over weekday observations that
\* stay inside the deadband with increasing sample times, neither accumulator
\* ever increases from one call to the next, and both accumulators eventually
\* become (and stay) exactly zero.
C10_DecayToZero ==
    /\ [][/\ anomaly_integral_high' <= anomaly_integral_high
          /\ anomaly_integral_low' <= anomaly_integral_low]_vars
    /\ <>[](anomaly_integral_high = 0 /\ anomaly_integral_low = 0)

\* an accumulator that was loaded above the epsilon has been decayed by an
\* observation to a smaller value that is still above the epsilon
C10_Witness ==
    /\ last.op = "pattern"
    /\ last.message = None
    /\ anomaly_integral_high > Epsilon
    /\ anomaly_integral_high < Epsilon + Epsilon \div 2
    /\ anomaly_integral_low = 0

----------------------------------------------------------------------------
(* Claims about the departure advisor, checked under SpecDeparture *)

\* the recommended departure of the latest call
LastRecommended == last.target_arrival - last.current

\* what the state held for the latest call's target date before the call
LastStored ==
    IF last.stored_date = Some(DateOf(last.target_arrival))
    THEN last.stored_minutes
    ELSE None

\* C3: with the caller storing (target date, departure_minutes) after each
\* decision, a decision for a target date that already has a stored value is
\* returned only when its minutes-since-midnight are less than the stored
\* value minus 0.1; an equal or later recommendation is suppressed; so the
\* minutes notified in a row for one target date strictly decrease.
C3_ResendOnlyEarlier ==
    /\ last.op = "departure" /\ LastStored # None =>
          /\ last.decision # None =>
                last.decision[1].departure_minutes < LastStored[1] - ResendTolerance
          /\ minutes_since_midnight(LastRecommended) >= LastStored[1] =>
                last.decision = None
    /\ \A i \in 1 .. Len(notified) - 1 :
          notified[i].target_date = notified[i + 1].target_date =>
              notified[i + 1].departure_minutes
                  < notified[i].departure_minutes - ResendTolerance

\* a third, still earlier, departure has been notified for the same date
C3_Witness ==
    /\ Len(notified) = 3
    /\ notified[1].target_date = notified[2].target_date
    /\ notified[2].target_date = notified[3].target_date
    /\ last.decision # None

\* C4: whenever a decision is returned the recommended departure instant
\* (target_arrival minus current_duration_mins) is strictly later than now;
\* when it is at or before now there is no decision.
C4_NeverAlreadyPassed ==
    last.op = "departure" =>
        /\ last.decision # None => LastRecommended > last.now
        /\ LastRecommended <= last.now => last.decision = None

\* a decision whose departure is still ahead, returned by a call made later
\* than an earlier call's recommended departure
C4_Witness ==
    /\ last.op = "departure"
    /\ last.decision # None
    /\ LastRecommended > last.now
    /\ calls >= 2

\* C8: Scenario B: target arrival 08:20 on a weekday, lead time 30, duration
\* 60, now 07:05, empty state: a decision with departure_minutes = 440
\* (07:20), which the caller stores; a later call with duration 40
\* (recommended departure 07:40) returns no decision.
C8_ScenarioB ==
    /\ scenario = 1 =>
          /\ last.decision # None
          /\ last.decision[1].departure_minutes = Mins(440)
          /\ last.decision[1].message.leave_by = 7 * 60 + 20
          /\ departure_minutes = Some(Mins(440))
          /\ departure_date = Some(DateOf(last.target_arrival))
    /\ scenario = 2 =>
          /\ last.decision = None
          /\ departure_minutes = Some(Mins(440))

\* the later call was made inside its own notify window (07:10 to 07:40), so
\* that only the stored 07:20 suppresses it
C8_Witness ==
    /\ scenario = 2
    /\ last.current = Mins(40)
    /\ last.now >= LastRecommended - LeadTime
    /\ last.now < LastRecommended
    /\ last.decision = None

----------------------------------------------------------------------------
(* Claims about the baseline estimator, checked under SpecBaseline *)

\* the samples dated before the target date, in order
History(ss) ==
    SelectSeq(ss, LAMBDA x :
        DateOf(x.departure_time) < DateOf(query[1].target_departure))

\* C5: compute_bucket_ema_baseline has no lookahead: adding, removing or
\* changing samples whose departure_time date is on or after
\* target_departure's date never changes the returned baseline.
C5_NoLookahead ==
    [][History(samples') = History(samples) => baseline' = baseline]_vars

\* a baseline was returned from a history that also holds a weekday sample of
\* the target's bucket dated on the target day
C5_Witness ==
    /\ baseline.value # None
    /\ \E i \in 1 .. Len(samples) :
          /\ DateOf(samples[i].departure_time) = DateOf(query[1].target_departure)
          /\ samples[i].departure_time = query[1].target_departure + Mins(2)
    /\ \E i \in 1 .. Len(samples) :
          samples[i].traffic_duration_mins * baseline.value[1][2] # baseline.value[1][1]

\* the samples that qualify: on a weekday, before the target date, in the
\* target's time-of-day bucket
Qualifying ==
    {i \in 1 .. Len(samples) :
        /\ DateOf(samples[i].departure_time) % 7 \in 0 .. 4
        /\ DateOf(samples[i].departure_time) < DateOf(query[1].target_departure)
        /\ (samples[i].departure_time % TicksPerDay) \div Mins(query[1].bucket_minutes)
              = (query[1].target_departure % TicksPerDay) \div Mins(query[1].bucket_minutes)}

QualifyingDates == {DateOf(samples[i].departure_time) : i \in Qualifying}

RECURSIVE SumOver(_)
SumOver(I) ==
    IF I = {} THEN 0
    ELSE LET i == CHOOSE x \in I : TRUE
         IN  samples[i].traffic_duration_mins + SumOver(I \ {i})

\* C6: when exactly one calendar date qualifies, compute_bucket_ema_baseline
\* returns exactly the arithmetic mean of that date's same-bucket samples,
\* for every positive ema_span.
C6_SingleDayMean ==
    /\ query[1].ema_span > 0
    /\ Cardinality(QualifyingDates) = 1
    => baseline = Returned(Some(Frac(SumOver(Qualifying), Cardinality(Qualifying))))

\* one qualifying date with two different durations, smoothed with a span
\* above 1, beside samples that do not qualify
C6_Witness ==
    /\ query[1].ema_span > 1
    /\ Cardinality(QualifyingDates) = 1
    /\ Cardinality(Qualifying) = 2
    /\ Len(samples) = 3
    /\ \E i \in Qualifying, j \in Qualifying :
          samples[i].traffic_duration_mins # samples[j].traffic_duration_mins
    /\ baseline.value # None

----------------------------------------------------------------------------
(* Claims about pruning, checked under SpecStore *)

\* a record whose query_time is strictly before the cutoff; a timestamp
\* without an offset is read in the cutoff's zone
Stale(line, cutoff) ==
    /\ line.kind = "object"
    /\ line.query_time.present
    /\ line.query_time.iso
    /\ LET off == IF line.query_time.offset = None
                  THEN cutoff.offset
                  ELSE line.query_time.offset[1]
       IN  line.query_time.clock - off < cutoff.clock - cutoff.offset

\* what a line says, whatever its formatting; blank lines say nothing
RECURSIVE Content(_)
Content(lines) ==
    IF lines = <<>> THEN <<>>
    ELSE IF Head(lines).kind = "blank" THEN Content(Tail(lines))
    ELSE <<[kind |-> Head(lines).kind, query_time |-> Head(lines).query_time]>>
             \o Content(Tail(lines))

\* C9: prune_jsonl_history with a cutoff removes exactly the records whose
\* query_time is strictly before the cutoff (a record at exactly the cutoff
\* is kept), returns the number removed, and leaves every other record
\* unchanged in content and in its original relative order.  (For a file
\* whose JSON lines are all objects: on any other file the call raises.)
C9_PruneExact ==
    pruned # None /\ ~pruned[1].raised =>
        LET before == pruned[1].before
            cutoff == pruned[1].cutoff
        IN  /\ pruned[1].removed
                  = Cardinality({i \in 1 .. Len(before) : Stale(before[i], cutoff)})
            /\ Content(file)
                  = Content(SelectSeq(before, LAMBDA l : ~Stale(l, cutoff)))

\* a prune that removed a record and kept, after it, a record timed exactly
\* at the cutoff and a line that is not a record
C9_Witness ==
    /\ pruned # None
    /\ pruned[1].removed = 1
    /\ Len(file) = 2
    /\ file[1].kind = "object"
    /\ file[1].query_time.iso
    /\ file[1].query_time.offset # None
    /\ Instant(file[1].query_time.clock, file[1].query_time.offset[1])
          = Instant(pruned[1].cutoff.clock, pruned[1].cutoff.offset)
    /\ file[2].kind = "garbage"

----------------------------------------------------------------------------
(* Claims about load_samples, checked under SpecLoad *)

\* a valid record of the series (data model): an object with both
\* timestamps in ISO form, origin and destination, a numeric traffic
\* duration, and a clear duration that is numeric when given
IsValidRecord(line) ==
    /\ line.kind = "object"
    /\ line.query_time.present /\ line.query_time.iso
    /\ line.departure_time.present /\ line.departure_time.iso
    /\ line.origin # "" /\ line.destination # ""
    /\ line.traffic_duration_mins.kind = "number"
    /\ line.clear_duration_mins.kind \in {"missing", "number"}

ValidLineNumbers == {i \in 1 .. Len(file) : IsValidRecord(file[i])}

\* C11: load_samples never fails because of line content: for any mix of
\* blank lines, lines that are not JSON, JSON that is no object, objects
\* lacking a required field, objects with unparseable timestamps or
\* durations, and valid records, it returns normally and the result holds
\* exactly the valid records.
C11_LoadNeverFails ==
    last.op = "load" =>
        /\ ~last.raised
        /\ Len(last.samples) = Cardinality(ValidLineNumbers)
        /\ \A i \in ValidLineNumbers :
              \E j \in 1 .. Len(last.samples) :
                 /\ last.samples[j].query_time
                        = Aware(file[i].query_time, last.fallback_tz)
                 /\ last.samples[j].traffic_duration_mins
                        = file[i].traffic_duration_mins.value

\* the samples of a sequence whose query_time is the instant t
AtInstant(ss, t) == SelectSeq(ss, LAMBDA x : QueryInstant(x) = t)

\* C12: load_samples returns the samples in ascending order of query_time
\* whatever the order of the lines, and records with the same query_time are
\* all kept, in the order they have in the file.
C12_SortedStable ==
    (last.op = "load" /\ ~last.raised) =>
        /\ \A i, j \in 1 .. Len(last.samples) :
              i < j => QueryInstant(last.samples[i]) <= QueryInstant(last.samples[j])
        /\ Len(last.samples) = Len(last.appended)
        /\ \A i \in 1 .. Len(last.appended) :
              AtInstant(last.samples, QueryInstant(last.appended[i]))
                  = AtInstant(last.appended, QueryInstant(last.appended[i]))

\* a file whose lines are out of order, with two different records at the
\* same instant (written with different offsets), has been loaded
C12_Witness ==
    /\ last.op = "load" /\ ~last.raised
    /\ Len(last.appended) = 3
    /\ last.samples # last.appended
    /\ \E i, j \in 1 .. 3 :
          /\ i < j
          /\ last.samples[i] # last.samples[j]
          /\ last.samples[i].query_time # last.samples[j].query_time
          /\ QueryInstant(last.samples[i]) = QueryInstant(last.samples[j])

----------------------------------------------------------------------------
(* Claims about the notification state file, checked under SpecDisk *)

\* C13: NotificationState.load never fails: for a missing file, a file that
\* is no JSON, a file of JSON that is no object, or an object with
\* unparseable field values, it returns, giving the all-defaults state (or
\* the default for each bad field).
C13_LoadStateNeverFails ==
    last.op = "load" =>
        /\ ~last.raised
        /\ last.content.kind \in {"missing", "garbage", "nonobject"}
              => NotificationState = DefaultState
        /\ (last.content.kind = "object" /\ last.content.written = SaveChunks)
              => LET payload == last.content.payload
                 IN  /\ payload.departure_date = JText => departure_date = None
                     /\ payload.departure_minutes = JText => departure_minutes = None
                     /\ payload.pattern_alert_date = JText => pattern_alert_date = None
                     /\ payload.anomaly_integral_high = JText
                           => anomaly_integral_high = 0
                     /\ payload.anomaly_integral_low = JText
                           => anomaly_integral_low = 0
                     /\ payload.anomaly_last_timestamp = JText
                           => anomaly_last_timestamp = None

\* C14: persisting the state is all-or-nothing: when the process dies at
\* any point of NotificationState.save, the file holds the complete previous
\* content or the complete new content.
C14_SaveAllOrNothing ==
    last.op = "crash" =>
        \/ state_file = last.before
        \/ state_file = ObjectFile(last.payload, SaveChunks)

----------------------------------------------------------------------------
(* Claims about the estimator's configuration, checked under SpecConfig *)

\* C15: compute_bucket_ema_baseline raises ValueError whenever max_weekdays,
\* bucket_minutes or ema_span is zero or negative, for every sample set, the
\* empty one included; it returns no value then.
C15_RejectsNonPositive ==
    (\/ query[1].max_weekdays <= 0
     \/ query[1].bucket_minutes <= 0
     \/ query[1].ema_span <= 0)
        => baseline.raised /\ baseline.value = None

\* a history with a qualifying sample and a configuration whose only fault
\* is a zero ema_span has been rejected
C15_Witness ==
    /\ query[1].max_weekdays > 0
    /\ query[1].bucket_minutes > 0
    /\ query[1].ema_span = 0
    /\ \E i \in 1 .. Len(samples) :
          InBucketHistory(samples[i], query[1].target_departure,
                          query[1].bucket_minutes)
    /\ baseline.raised

----------------------------------------------------------------------------
(* Claims about the smoothing, checked under SpecHistory *)

\* the arithmetic mean of the qualifying samples of date d
MeanOn(d) ==
    LET I == {i \in Qualifying : DateOf(samples[i].departure_time) = d}
    IN  Frac(SumOver(I), Cardinality(I))

\* the max_weekdays most recent qualifying dates
RecentDates ==
    {d \in QualifyingDates :
        Cardinality({e \in QualifyingDates : e > d}) < query[1].max_weekdays}

\* x * a + y * b for fractions a, b and integers x, y, over the divisor z
Blend(x, a, y, b, z) == Frac(x * a[1] * b[2] + y * b[1] * a[2], z * a[2] * b[2])

\* the moving average up to date d: the first date's mean seeds it, then
\* alpha * mean + (1 - alpha) * average with alpha = 2 / (span + 1)
RECURSIVE EmaUpTo(_)
EmaUpTo(d) ==
    LET earlier == {e \in RecentDates : e < d}
        span == query[1].ema_span
    IN  IF earlier = {} THEN MeanOn(d)
        ELSE LET previous == CHOOSE e \in earlier : \A f \in earlier : f <= e
             IN  Blend(2, MeanOn(d), span - 1, EmaUpTo(previous), span + 1)

----------------------------------------------------------------------------
(* Claims about single integrator calls, checked under SpecObserve *)

\* C17: when baseline_duration_mins is absent or <= 0, or sample_time is on
\* a Saturday or Sunday, evaluate_pattern_alert returns no message with
\* state_changed = False and leaves every field of the state unchanged.
C17_SkipLeavesState ==
    (/\ last.op = "observe"
     /\ \/ last.base = None
        \/ last.base # None /\ last.base[1] <= 0
        \/ DateOf(last.sample_time) % 7 \in {5, 6})
        => /\ last.message = None
           /\ ~last.state_changed
           /\ NotificationState = last.before

\* a Saturday sample with a usable baseline and a travel time far from it
\* has been evaluated on a state with a positive accumulator
C17_Witness ==
    /\ last.op = "observe"
    /\ DateOf(last.sample_time) % 7 = 5
    /\ last.base = Some(Mins(50))
    /\ last.current = Mins(10)
    /\ last.before.anomaly_integral_low > 0
    /\ anomaly_integral_low > 0

\* C18: every evaluate_pattern_alert call that returns an alert message
\* leaves both accumulators at exactly zero and pattern_alert_date equal to
\* the calendar date of sample_time.
C18_AlertResets ==
    (last.op = "observe" /\ last.message # None)
        => /\ anomaly_integral_high = 0
           /\ anomaly_integral_low = 0
           /\ pattern_alert_date = Some(last.sample_time \div TicksPerDay)

\* an alert for Friday has been returned by a call that started with a
\* positive accumulator and Thursday as the date of the last alert
C18_Witness ==
    /\ last.op = "observe"
    /\ last.message # None
    /\ last.before.anomaly_integral_low > 0
    /\ last.before.pattern_alert_date = Some(FirstDay)
    /\ pattern_alert_date = Some(FirstDay + 1)

\* the latest call was not skipped: a positive baseline on a weekday
Incorporated ==
    /\ last.op = "observe"
    /\ last.base # None
    /\ last.base[1] > 0
    /\ DateOf(last.sample_time) % 7 \in 0 .. 4

\* the elapsed minutes as the claim states them: the nominal interval when
\* there is no previous timestamp or the sample is not later than it, else
\* the gap, at most max_sample_gap_minutes
StatedElapsed ==
    LET previous == last.before.anomaly_last_timestamp
    IN  IF previous = None THEN sample_interval_minutes
        ELSE IF last.sample_time <= previous[1] THEN sample_interval_minutes
        ELSE LET gap == (last.sample_time - previous[1]) \div TicksPerMinute
             IN  IF gap > max_sample_gap_minutes THEN max_sample_gap_minutes
                 ELSE gap

\* |deviation| - deadband of the latest call, in ticks
Excess == Abs(last.current - last.base[1]) - deadband_minutes

\* the accumulator of the deviation's direction, before and after the call
ActiveBefore ==
    IF last.current > last.base[1] THEN last.before.anomaly_integral_high
    ELSE last.before.anomaly_integral_low

ActiveAfter ==
    IF last.current > last.base[1] THEN anomaly_integral_high
    ELSE anomaly_integral_low

\* the active accumulator decayed over the stated elapsed time, plus
\* (|deviation| - deadband) * elapsed
DecayedPlusContribution ==
    MulFactor(ActiveBefore, ExpTable[StatedElapsed])
        + Excess * StatedElapsed * (IntegralScale \div TicksPerMinute)

\* C19: when the active accumulator is at or above integral_threshold but an
\* alert was already issued for sample_time's calendar date, the call
\* returns no message and does not reset: the active integral keeps its
\* decayed-plus-contribution value and pattern_alert_date is unchanged.
C19_SuppressedKeepsIntegral ==
    (/\ Incorporated
     /\ Excess > 0
     /\ DecayedPlusContribution >= integral_threshold
     /\ last.before.pattern_alert_date = Some(DateOf(last.sample_time)))
        => /\ last.message = None
           /\ ActiveAfter = DecayedPlusContribution
           /\ pattern_alert_date = last.before.pattern_alert_date

\* a call above the threshold on the date of the last alert, starting from
\* an accumulator that was already positive
C19_Witness ==
    /\ Incorporated
    /\ Excess > 0
    /\ ActiveBefore > 0
    /\ DecayedPlusContribution >= integral_threshold
    /\ last.before.pattern_alert_date = Some(DateOf(last.sample_time))
    /\ last.message = None
    /\ ActiveAfter >= integral_threshold

\* C20: the elapsed time used for decay and contribution is the nominal
\* interval when there is no previous timestamp or the sample is not later
\* than it, and otherwise the real gap capped at max_sample_gap_minutes; it
\* is positive and at most max_sample_gap_minutes, and one call adds at most
\* (|deviation| - deadband) * max_sample_gap_minutes to an accumulator.
C20_ElapsedClamped ==
    Incorporated =>
        /\ StatedElapsed > 0
        /\ StatedElapsed <= max_sample_gap_minutes
        /\ (Excess > 0 /\ last.message = None)
              => /\ ActiveAfter = DecayedPlusContribution
                 /\ ActiveAfter - ActiveBefore
                       <= Excess * max_sample_gap_minutes
                             * (IntegralScale \div TicksPerMinute)
        /\ Excess <= 0
              => /\ anomaly_integral_high
                       \in {0, MulFactor(last.before.anomaly_integral_high,
                                         ExpTable[StatedElapsed])}
                 /\ anomaly_integral_low
                       \in {0, MulFactor(last.before.anomaly_integral_low,
                                         ExpTable[StatedElapsed])}

\* a sample a day after the previous one, outside the deadband, has been
\* integrated with the capped gap on top of a positive accumulator
C20_Witness ==
    /\ Incorporated
    /\ last.before.anomaly_last_timestamp # None
    /\ last.sample_time - last.before.anomaly_last_timestamp[1] = TicksPerDay
    /\ StatedElapsed = max_sample_gap_minutes
    /\ Excess > 0
    /\ ActiveBefore > 0
    /\ last.message = None
    /\ ActiveAfter > ActiveBefore

\* an accumulator x after the decay over the stated elapsed time and the
\* snap to zero below the epsilon
DecayedAndSnapped(x) ==
    LET y == MulFactor(x, ExpTable[StatedElapsed])
    IN  IF y < Epsilon THEN 0 ELSE y

\* C21: a weekday observation whose deviation is inside the deadband adds
\* no contribution, sets anomaly_last_timestamp to the sample time, reports
\* state_changed = True and never returns an alert, even when an accumulator
\* is still at or above the threshold from earlier suppressed accumulation.
C21_InBandNoAlert ==
    (Incorporated /\ Excess <= 0)
        => /\ last.message = None
           /\ last.state_changed
           /\ anomaly_last_timestamp = Some(last.sample_time)
           /\ anomaly_integral_high = DecayedAndSnapped(last.before.anomaly_integral_high)
           /\ anomaly_integral_low = DecayedAndSnapped(last.before.anomaly_integral_low)
           /\ pattern_alert_date = last.before.pattern_alert_date

\* an in-band Friday sample has been evaluated on an accumulator that
\* stayed above the threshold after Thursday's alert
C21_Witness ==
    /\ Incorporated
    /\ Excess <= 0
    /\ DateOf(last.sample_time) = FirstDay + 1
    /\ last.before.pattern_alert_date = Some(FirstDay)
    /\ last.before.anomaly_integral_low >= integral_threshold
    /\ anomaly_integral_low >= integral_threshold
    /\ last.message = None

----------------------------------------------------------------------------
(* More claims about the departure advisor, checked under SpecDeparture *)

\* the recommended departure of the latest call, and the start of its
\* notify window
StatedDeparture == last.target_arrival - last.current

StatedNotifyAt == StatedDeparture - LeadTime

\* C22: evaluate_departure_notification returns no decision when the target
\* arrival date is a Saturday or Sunday, and when now is earlier than
\* notify_at = recommended_departure - lead_time; a decision is returned only
\* with notify_at <= now < recommended_departure on a weekday target date.
C22_OnlyInsideWindow ==
    last.op = "departure" =>
        /\ DateOf(last.target_arrival) % 7 \in {5, 6} => last.decision = None
        /\ last.now < StatedNotifyAt => last.decision = None
        /\ last.decision # None
              => /\ DateOf(last.target_arrival) % 7 \in 0 .. 4
                 /\ StatedNotifyAt <= last.now
                 /\ last.now < StatedDeparture

\* a call for a Saturday arrival, inside its notify window and with nothing
\* notified before, has returned no decision
C22_Witness ==
    /\ last.op = "departure"
    /\ DateOf(last.target_arrival) % 7 = 5
    /\ StatedNotifyAt <= last.now
    /\ last.now < StatedDeparture
    /\ last.stored_date = None
    /\ last.decision = None

----------------------------------------------------------------------------
(* Claims about spikes and sustained shifts *)

\* C23: a brief spike is ignored: from a zero integrator state, a single
\* observation outside the deadband, of any magnitude, never produces an
\* alert.  Checked under SpecObserve.
C23_SpikeIgnored ==
    (/\ Incorporated
     /\ Excess > 0
     /\ last.before.anomaly_integral_high = 0
     /\ last.before.anomaly_integral_low = 0)
        => last.message = None

\* the observations of one hour at the nominal interval
ObservationsPerHour == 60 \div sample_interval_minutes

\* how far the stream's deviation lies beyond the deadband
StreamExcess == Abs(last.current - SustainedBaseline) - deadband_minutes

\* C24 as stated: when every observation at the nominal interval shows the
\* same deviation beyond the deadband in one direction, an alert is
\* returned within an hour of such observations.  Checked under
\* SpecSustained.
C24_SustainedTriggers ==
    (calls >= ObservationsPerHour /\ StreamExcess > 0) => last.alerted_at > 0

\* C24 as amended: when that deviation is beyond the deadband by 4 minutes
\* or more, an alert is returned within an hour of such observations.
C24_SustainedTriggersFromFour ==
    (calls >= ObservationsPerHour /\ StreamExcess >= Mins(4))
        => last.alerted_at \in 1 .. ObservationsPerHour

\* a stream 4.0 minutes beyond the deadband, running from Thursday 23:30
\* into Friday, alerted on its eleventh observation
C24_Witness ==
    /\ last.start = At(FirstDay, 23, 30)
    /\ StreamExcess = Mins(4)
    /\ last.alerted_at = 11
    /\ calls >= ObservationsPerHour

\* a non-blank line that is no JSON, or is JSON without a query_time, or
\* whose query_time is no ISO timestamp
Unparseable(line) ==
    \/ line.kind \in {"garbage", "nonobject"}
    \/ line.kind = "object" /\ (~line.query_time.present \/ ~line.query_time.iso)

\* C25: prune_jsonl_history never deletes data it cannot parse: every
\* non-blank line that is not valid JSON, has no query_time, or has an
\* unparseable query_time is still in the file verbatim after pruning, is
\* not counted in the returned number, and does not make the call fail.
\* Checked under SpecStore.
C25_KeepsUnparseable ==
    pruned # None =>
        LET before == pruned[1].before
        IN  /\ ~pruned[1].raised
            /\ SelectSeq(file, Unparseable) = SelectSeq(before, Unparseable)
            /\ pruned[1].removed
                  <= Cardinality({i \in 1 .. Len(before) :
                                     before[i].kind # "blank" /\ ~Unparseable(before[i])})

----------------------------------------------------------------------------
(* Urgency across midnight, checked under SpecDeparture *)

\* the notifications made before the latest call
NotifiedBefore ==
    IF last.decision = None THEN notified
    ELSE SubSeq(notified, 1, Len(notified) - 1)

\* C26: for a fixed target arrival whose date already has a stored
\* notification, whenever now is inside the notify window and the newly
\* recommended departure instant is earlier than the previously notified
\* departure instant by more than 0.1 minute, a decision is returned,
\* whatever the arrival time of day and the travel duration.
C26_EarlierInstantRenotifies ==
    (/\ last.op = "departure"
     /\ NotifiedBefore # <<>>
     /\ LET prior == NotifiedBefore[Len(NotifiedBefore)]
        IN  /\ prior.target_arrival = last.target_arrival
            /\ last.stored_date = Some(DateOf(last.target_arrival))
            /\ StatedDeparture < prior.recommended_departure - ResendTolerance
     /\ StatedNotifyAt <= last.now
     /\ last.now < StatedDeparture)
        => last.decision # None

----------------------------------------------------------------------------
(* The round trip through the state file, checked under SpecDisk *)

\* C27: save then load is the identity on NotificationState: for every
\* state (zero integrals, departure_minutes = 0.0 and absent dates or
\* timestamp included, whose fields are left out of the file),
\* NotificationState.load of the file written by save returns a state equal
\* field by field to the saved one.
C27_SaveLoadIdentity ==
    /\ last.op = "saved" => load(state_file) = Returned(NotificationState)
    /\ last.op = "load" =>
          \A s \in StateSamples :
              last.content = ObjectFile(SavePayload(s), SaveChunks)
                  => ~last.raised /\ NotificationState = s

\* a later run, whose memory held another state, has loaded the file
\* written for a departure notice of 00:00 (departure_minutes = 0.0, no
\* alert date, no timestamp, zero integrals)
C27_Witness ==
    /\ last.op = "load"
    /\ last.content = ObjectFile(SavePayload(NotificationState), SaveChunks)
    /\ last.before # NotificationState
    /\ departure_minutes = Some(0)
    /\ pattern_alert_date = None
    /\ anomaly_last_timestamp = None
    /\ anomaly_integral_high = 0

----------------------------------------------------------------------------
(* The once-per-day test, checked under SpecTest *)

\* C28: with baseline 12, deadband 2, threshold 180 and default state, a
\* first weekday sample of 17.0 returns no alert with state_changed = True,
\* and a second sample of 17.2 taken 5 minutes later returns a 'Traffic
\* pattern changed' alert and sets pattern_alert_date to that date.
C28_SecondSampleAlerts ==
    /\ scenario = 1 => last.message = None /\ last.state_changed
    /\ scenario = 2 =>
          /\ last.message # None
          /\ pattern_alert_date = Some(DateOf(last.sample_time))

----------------------------------------------------------------------------
(* The reported mutations, checked under SpecObserve *)

\* C29: evaluate_pattern_alert reports every mutation: whenever a call
\* changes any field of the state the returned state_changed is True;
\* state_changed is False only on the skipped paths (no usable baseline, or
\* a weekend sample), which leave the state untouched.
C29_ReportsEveryMutation ==
    last.op = "observe" =>
        /\ NotificationState # last.before => last.state_changed
        /\ ~last.state_changed =>
              /\ \/ last.base = None
                 \/ last.base # None /\ last.base[1] <= 0
                 \/ DateOf(last.sample_time) % 7 \in {5, 6}
              /\ NotificationState = last.before

\* an observation inside the deadband on zero accumulators changed nothing
\* but anomaly_last_timestamp, and was reported
C29_Witness ==
    /\ last.op = "observe"
    /\ Incorporated
    /\ Excess <= 0
    /\ last.before.anomaly_integral_high = 0
    /\ last.before.anomaly_integral_low = 0
    /\ last.before.anomaly_last_timestamp # Some(last.sample_time)
    /\ NotificationState
          = [last.before EXCEPT !.anomaly_last_timestamp = Some(last.sample_time)]
    /\ last.state_changed

----------------------------------------------------------------------------
(* The two components on the shared state, checked under SpecCycle *)

\* the results of the latest cycle's components had each been called alone
\* on the state the cycle started from
AdvisorAlone ==
    evaluate_departure_notification(
        last.now, ClockTime(CycleTarget), CycleTarget, last.current,
        DepartureBaseline, LeadTime, last.before)

PatternAlone ==
    evaluate_pattern_alert(last.before, last.now, last.current,
                           Some(DepartureBaseline))

\* C30: the two decision components write disjoint parts of the shared
\* NotificationState: evaluate_pattern_alert never changes departure_date or
\* departure_minutes, and evaluate_departure_notification changes no field
\* at all, so running them in either order on the same starting state
\* gives the same decisions and the same final state.
C30_OrderIndependent ==
    last.op = "cycle" =>
        /\ departure_date = last.before.departure_date
        /\ departure_minutes = last.before.departure_minutes
        /\ last.order = "advisor_first" => last.after_first = last.before
        /\ last.order = "pattern_first" => NotificationState = last.after_first
        /\ last.decision = AdvisorAlone
        /\ last.message = PatternAlone.message
        /\ NotificationState = PatternAlone.state

\* a cycle that called the integrator first, on a state holding a departure
\* notice, in which the integrator alerted and the advisor decided
C30_Witness ==
    /\ last.op = "cycle"
    /\ last.order = "pattern_first"
    /\ last.before.departure_minutes # None
    /\ last.message # None
    /\ last.decision # None
    /\ NotificationState # last.before

====
